---- MODULE Spec2Model ----
(***************************************************************************)
(* A model of the gitlg core pipeline and of the service built on it:      *)
(*   - gitlg-core/src/log_parser.rs  parse_git_log_records,                *)
(*                                   build_graph_rows                      *)
(*   - gitlg-core/src/search.rs      filter_commits                        *)
(*   - gitgraph-core/src/service.rs  graph_filtered and the file-contents  *)
(*                                   filter, normalize_action_request      *)
(*   - gitgraph-zed/src/lib.rs       filter_rows_by_file_contents          *)
(*   - gitlg-core/src/actions.rs     ActionCatalog (with_defaults, find,   *)
(*                                   resolve_with_lookup),                 *)
(*                                   expand_placeholders,                  *)
(*                                   parse_builtin_actions                 *)
(* Each component has its own specification (SpecGraph, SpecParse,         *)
(* SpecSearch, SpecFile, SpecFind, SpecExpand, SpecResolve, SpecChoose,    *)
(* SpecLoad, SpecOnce); the variables of the other components stay at      *)
(* their initial value.                                                    *)
(***************************************************************************)
EXTENDS Integers, Sequences, FiniteSets, TLC

VARIABLES
    active_lanes,   \* build_graph_rows: Vec<Option<String>>, slot i at position i+1
    row,            \* build_graph_rows: the GraphRow pushed last (NoRow before the first)
    n_rows,         \* build_graph_rows: rows.len()
    lanes_before,   \* build_graph_rows: active_lanes as the last iteration found it (history)
    batch,          \* the records the log text was written from (what git printed)
    stdout,         \* parse_git_log_records: the input text, a sequence of characters
    parsed,         \* parse_git_log_records: its Result (NotCalled before the call)
    s_rows,         \* filter_commits: the input rows
    s_query,        \* filter_commits: the CommitSearchQuery
    s_result,       \* filter_commits: its Result (NotCalled before the call)
    f_caller,       \* file-contents filter: "service" or "zed" ("none" before the call)
    f_rows,         \* file-contents filter: the rows to filter (data.commits)
    f_query,        \* file-contents filter: the CommitSearchQuery
    f_calls,        \* file-contents filter: the git grep calls made, with their outcome
    f_result,       \* file-contents filter: the Result of the call
    c_templates,    \* ActionCatalog::find: self.templates
    c_id,           \* ActionCatalog::find: the id looked up
    c_found,        \* ActionCatalog::find: its Option<&ActionTemplate>
    e_input,        \* expand_placeholders: the input text
    e_placeholders, \* expand_placeholders: the placeholder table
    e_lookup,       \* expand_placeholders: the dynamic lookup, a table of its answers
    e_asked,        \* expand_placeholders: the keys the lookup was called with, in order
    e_result,       \* expand_placeholders: its Result
    r_template,     \* resolve_with_lookup: the template the catalog holds
    r_request,      \* resolve_with_lookup: the ActionRequest
    r_lookup,       \* resolve_with_lookup: the dynamic lookup
    r_placeholders, \* resolve_with_lookup: the placeholder table when the call ended
    r_result,       \* resolve_with_lookup: its Result
    n_templates,    \* normalize_action_request: catalog.templates
    n_request,      \* normalize_action_request: the request received
    n_result,       \* normalize_action_request: the request returned
    l_raw,          \* parse_builtin_actions: the definitions read, by scope
    l_templates,    \* parse_builtin_actions: its Result
    o_lock,         \* with_defaults: the static BUILTIN: OnceLock<ActionCatalog>
    o_pc,           \* with_defaults: where each thread stands in its call
    o_ret,          \* with_defaults: the catalog each thread holds after its call
    o_parses,       \* with_defaults: how many times the initialiser has run
    run_pc,         \* tui::run: where the call stands
    raw_mode,       \* the terminal: raw mode is enabled
    alternate_screen, \* the terminal: the alternate screen is entered
    mouse_capture,  \* the terminal: mouse capture is enabled
    needs_redraw,   \* tui::run: let mut needs_redraw
    should_quit,    \* tui::run: let mut should_quit
    run_events,     \* tui::run: how many times the outer loop has polled
    terminal_ready, \* tui::run: setup_terminal() has returned Ok (history)
    run_result,     \* tui::run: its Result (NotCalled before it returns)
    app,            \* TuiApp: the fields the handlers below read and write
    app_phase,      \* TuiApp: "entry", "running", "quit" (a key handler answered false)
                    \*   or "failed" (new or a handler answered Err)
    app_log         \* TuiApp: what the events did (history)

graph_vars == <<active_lanes, row, n_rows, lanes_before>>
parse_vars == <<batch, stdout, parsed>>
search_vars == <<s_rows, s_query, s_result>>
file_vars == <<f_caller, f_rows, f_query, f_calls, f_result>>
find_vars == <<c_templates, c_id, c_found>>
expand_vars == <<e_input, e_placeholders, e_lookup, e_asked, e_result>>
resolve_vars == <<r_template, r_request, r_lookup, r_placeholders, r_result>>
choose_vars == <<n_templates, n_request, n_result>>
load_vars == <<l_raw, l_templates>>
once_vars == <<o_lock, o_pc, o_ret, o_parses>>
run_vars == <<run_pc, raw_mode, alternate_screen, mouse_capture, needs_redraw, should_quit,
              run_events, terminal_ready, run_result>>

\* the components of log_parser.rs and search.rs, and those of the service and actions
core_vars == <<graph_vars, parse_vars, search_vars>>
service_vars == <<file_vars, find_vars, expand_vars, resolve_vars, choose_vars,
                  load_vars, once_vars>>

\* the components of the terminal interface
tui_vars == <<app, app_phase, app_log>>
cli_vars == <<run_vars, tui_vars>>

vars == <<core_vars, service_vars, cli_vars>>

\* Result<T, GitLgError> values, and the state before the call
NotCalled == [tag |-> "NotCalled"]

Ok(v) == [tag |-> "Ok", value |-> v]

Err(e) == [tag |-> "Err", error |-> e]

(***************************************************************************)
(* Small helpers on sequences and sets.                                    *)
(***************************************************************************)
SetMin(S) == CHOOSE x \in S : \A y \in S : x <= y

SeqsUpTo(S, n) == UNION { [1..k -> S] : k \in 0..n }

(***************************************************************************)
(* ----------------------------- Graph builder --------------------------- *)
(* log_parser.rs, build_graph_rows and find_or_allocate_lane.              *)
(* A commit is [hash, parents]; the other RawCommit fields are copied to   *)
(* the row unchanged and play no part in lane assignment.  Lane indices    *)
(* are 0-based as in the source: slot i is active_lanes[i + 1].            *)
(***************************************************************************)
MaxParents == 2

MaxCommits == 3

\* commit hashes, as small numbers
Hashes == 1..3

\* Option::None in a lane slot
None == 0

NoRow == [hash |-> None, parents |-> <<>>, lane |-> 0, active_lane_count |-> 0,
          edges |-> <<>>]

Commits == { [hash |-> h, parents |-> p] : h \in Hashes, p \in SeqsUpTo(Hashes, MaxParents) }

\* find_or_allocate_lane without the first search: always takes a free or a new slot
find_or_allocate_lane_noreuse(hash, lanes) ==
    IF \E i \in 1..Len(lanes) : lanes[i] = None
    THEN LET i == SetMin({ j \in 1..Len(lanes) : lanes[j] = None })
         IN  [idx |-> i - 1, lanes |-> [lanes EXCEPT ![i] = hash]]
    ELSE [idx |-> Len(lanes), lanes |-> Append(lanes, hash)]

\* find_or_allocate_lane with rposition: the last slot awaiting the hash is taken
find_or_allocate_lane_last(hash, lanes) ==
    IF \E i \in 1..Len(lanes) : lanes[i] = hash
    THEN [idx |-> (CHOOSE j \in 1..Len(lanes) :
                      lanes[j] = hash /\ \A k \in (j + 1)..Len(lanes) : lanes[k] # hash) - 1,
          lanes |-> lanes]
    ELSE IF \E i \in 1..Len(lanes) : lanes[i] = None
    THEN LET i == SetMin({ j \in 1..Len(lanes) : lanes[j] = None })
         IN  [idx |-> i - 1, lanes |-> [lanes EXCEPT ![i] = hash]]
    ELSE [idx |-> Len(lanes), lanes |-> Append(lanes, hash)]

\* find_or_allocate_lane without the second search: a hash no slot awaits is
\* always pushed
find_or_allocate_lane_push(hash, lanes) ==
    IF \E i \in 1..Len(lanes) : lanes[i] = hash
    THEN [idx |-> SetMin({ j \in 1..Len(lanes) : lanes[j] = hash }) - 1, lanes |-> lanes]
    ELSE [idx |-> Len(lanes), lanes |-> Append(lanes, hash)]

\* fn find_or_allocate_lane(hash, active_lanes) -> usize, with the mutated vector
find_or_allocate_lane(hash, lanes) ==
    IF \E i \in 1..Len(lanes) : lanes[i] = hash
    THEN [idx |-> SetMin({ j \in 1..Len(lanes) : lanes[j] = hash }) - 1, lanes |-> lanes]
    ELSE IF \E i \in 1..Len(lanes) : lanes[i] = None
    THEN LET i == SetMin({ j \in 1..Len(lanes) : lanes[j] = None })
         IN  [idx |-> i - 1, lanes |-> [lanes EXCEPT ![i] = hash]]
    ELSE [idx |-> Len(lanes), lanes |-> Append(lanes, hash)]

\* lines 82-86 left out: no slot is cleared
collapse_duplicates_skipped(lanes, lane, hash) == lanes

\* the loop of lines 82-86: every other slot holding the commit's hash is cleared
collapse_duplicates(lanes, lane, hash) ==
    [i \in 1..Len(lanes) |->
        IF i - 1 # lane /\ lanes[i] = hash THEN None ELSE lanes[i]]

\* lines 89-97 with the first-parent branch lost: the lane is always freed
assign_first_parent_freed(lanes, lane, parents) ==
    [lanes |-> [lanes EXCEPT ![lane + 1] = None], edges |-> <<>>]

\* lines 88-97: the first parent takes over the commit's lane, or the lane is freed
assign_first_parent(lanes, lane, parents) ==
    IF parents # <<>>
    THEN [lanes |-> [lanes EXCEPT ![lane + 1] = parents[1]],
          edges |-> << [to_lane |-> lane, parent_hash |-> parents[1]] >>]
    ELSE [lanes |-> [lanes EXCEPT ![lane + 1] = None], edges |-> <<>>]

\* lines 99-105, for the parents from position `from` on
RECURSIVE assign_parents_from(_, _, _, _)
assign_parents_from(lanes, edges, parents, from) ==
    IF from > Len(parents)
    THEN [lanes |-> lanes, edges |-> edges]
    ELSE LET t == find_or_allocate_lane(parents[from], lanes)
         IN  assign_parents_from(t.lanes,
                 Append(edges, [to_lane |-> t.idx, parent_hash |-> parents[from]]),
                 parents, from + 1)

\* lines 99-105 without skip(1): the first parent is visited again
assign_other_parents_noskip(lanes, edges, parents) ==
    assign_parents_from(lanes, edges, parents, 1)

\* lines 99-105: for parent in commit.parents.iter().skip(1)
assign_other_parents(lanes, edges, parents) ==
    assign_parents_from(lanes, edges, parents, 2)

\* lines 107-109 left out: no slot is popped
trim_trailing_skipped(lanes) == lanes

\* retain(Option::is_some) instead of the loop: every free slot is removed
trim_trailing_retain(lanes) == SelectSeq(lanes, LAMBDA slot : slot # None)

\* lines 107-109: while active_lanes.last().is_some_and(Option::is_none) { pop }
RECURSIVE trim_trailing(_)
trim_trailing(lanes) ==
    IF lanes # <<>> /\ lanes[Len(lanes)] = None
    THEN trim_trailing(SubSeq(lanes, 1, Len(lanes) - 1))
    ELSE lanes

\* a count of the occupied slots instead of the vector's length
lane_count_occupied(lanes) ==
    Cardinality({ i \in 1..Len(lanes) : lanes[i] # None })

\* line 123: active_lane_count: active_lanes.len()
lane_count(lanes) == Len(lanes)

\* lines 77-126: one iteration of the loop over commits
process_commit(commit, lanes) ==
    LET own     == find_or_allocate_lane(commit.hash, lanes)
        lane    == own.idx
        cleared == collapse_duplicates(own.lanes, lane, commit.hash)
        first   == assign_first_parent(cleared, lane, commit.parents)
        rest    == assign_other_parents(first.lanes, first.edges, commit.parents)
        trimmed == trim_trailing(rest.lanes)
    IN  [lanes |-> trimmed,
         row   |-> [hash |-> commit.hash, parents |-> commit.parents, lane |-> lane,
                    active_lane_count |-> lane_count(trimmed), edges |-> rest.edges]]

GraphIdle == /\ active_lanes = <<>>
             /\ row = NoRow
             /\ n_rows = 0
             /\ lanes_before = <<>>

ParseIdle == /\ batch = <<>>
             /\ stdout = <<>>
             /\ parsed = NotCalled

SearchIdle == /\ s_rows = <<>>
              /\ s_query = NotCalled
              /\ s_result = NotCalled

FileIdle == /\ f_caller = "none"
            /\ f_rows = <<>>
            /\ f_query = NotCalled
            /\ f_calls = <<>>
            /\ f_result = NotCalled

FindIdle == /\ c_templates = <<>>
            /\ c_id = <<>>
            /\ c_found = NotCalled

ExpandIdle == /\ e_input = <<>>
              /\ e_placeholders = <<>>
              /\ e_lookup = <<>>
              /\ e_asked = <<>>
              /\ e_result = NotCalled

ResolveIdle == /\ r_template = NotCalled
               /\ r_request = NotCalled
               /\ r_lookup = <<>>
               /\ r_placeholders = <<>>
               /\ r_result = NotCalled

ChooseIdle == /\ n_templates = <<>>
              /\ n_request = NotCalled
              /\ n_result = NotCalled

LoadIdle == /\ l_raw = <<>>
            /\ l_templates = NotCalled

OnceIdle == /\ o_lock = NotCalled
            /\ o_pc = <<>>
            /\ o_ret = <<>>
            /\ o_parses = 0

RunIdle == /\ run_pc = "entry"
           /\ raw_mode = FALSE
           /\ alternate_screen = FALSE
           /\ mouse_capture = FALSE
           /\ needs_redraw = FALSE
           /\ should_quit = FALSE
           /\ run_events = 0
           /\ terminal_ready = FALSE
           /\ run_result = NotCalled

\* Option<usize> of ListState::selected
Unselected == [some |-> FALSE, value |-> 0]

Selected(index) == [some |-> TRUE, value |-> index]

\* Option<T> of the other optional fields
NoOption == [some |-> FALSE, value |-> <<>>]

SomeOption(v) == [some |-> TRUE, value |-> v]

\* the fields of TuiApp before TuiApp::new has filled them
NoApp ==
    [graph |-> <<>>, filtered_rows |-> <<>>, list_state |-> Unselected,
     input_mode |-> "Normal", focus |-> "Commits", search_input |-> <<>>,
     current_commit_hash |-> NoOption, pending_commit_prefetch |-> FALSE,
     pending_search_apply |-> FALSE, commit_desc_popup_lines |-> NoOption,
     commit_desc_popup_mode |-> NoOption, last_generated_commit_desc |-> NoOption]

NoEvent == [kind |-> "none", code |-> "", control |-> FALSE, mode |-> NoOption]

NoLog ==
    [edited_by |-> NoEvent, applied_by |-> NoEvent, commit_by |-> NoEvent, push_by |-> NoEvent,
     commits |-> 0, pushes |-> 0, committed |-> FALSE]

TuiIdle == /\ app = NoApp
           /\ app_phase = "entry"
           /\ app_log = NoLog

CliIdle == RunIdle /\ TuiIdle

CoreIdle == GraphIdle /\ ParseIdle /\ SearchIdle

ServiceIdle == /\ FileIdle
               /\ FindIdle
               /\ ExpandIdle
               /\ ResolveIdle
               /\ ChooseIdle
               /\ LoadIdle
               /\ OnceIdle

\* lines 74-75: no active lane, no row
InitGraph == CoreIdle /\ ServiceIdle /\ CliIdle

\* one iteration of `for commit in commits`, the commit drawn from the input
ProcessCommit(commit) ==
    /\ n_rows < MaxCommits
    /\ LET r == process_commit(commit, active_lanes)
       IN  /\ active_lanes' = r.lanes
           /\ row' = r.row
    /\ n_rows' = n_rows + 1
    /\ lanes_before' = active_lanes
    /\ UNCHANGED <<parse_vars, search_vars, service_vars, cli_vars>>

NextGraph == \E commit \in Commits : ProcessCommit(commit)

SpecGraph == InitGraph /\ [][NextGraph]_vars

(***************************************************************************)
(* ------------------------- Properties: graph builder ------------------- *)
(***************************************************************************)
\* slots of `lanes` (0-based) awaiting hash h
AwaitingSlots(lanes, h) == { i \in 0..(Len(lanes) - 1) : lanes[i + 1] = h }

OccupiedSlots(lanes) == { i \in 0..(Len(lanes) - 1) : lanes[i + 1] # None }

\* C1 as stated: every row's lane is below the row's active_lane_count, rows of
\* parentless commits included.
C1_LaneBelowCountAlways ==
    n_rows > 0 => row.lane < row.active_lane_count

\* C1, amended: the row of a commit with at least one parent has
\* lane < active_lane_count; the row of a parentless commit frees its lane, so
\* there lane < active_lane_count holds exactly when a higher slot is occupied.
C1_LaneBelowCount ==
    n_rows > 0 =>
        /\ row.parents # <<>> => row.lane < row.active_lane_count
        /\ row.parents = <<>> =>
              /\ row.lane \notin OccupiedSlots(active_lanes)
              /\ (row.lane < row.active_lane_count
                    <=> \E j \in OccupiedSlots(active_lanes) : j > row.lane)

\* a commit with a parent was placed in a lane other than the first
C1_Witness ==
    n_rows > 0 /\ row.parents # <<>> /\ row.lane > 0

\* C2 as stated: after each row no two distinct occupied slots await the same hash.
C2_NoDuplicateAwaited ==
    \A h \in Hashes : Cardinality(AwaitingSlots(active_lanes, h)) <= 1

\* C2, amended: a second slot for an awaited hash arises only by a first-parent
\* assignment: when a row leaves more than one slot awaiting h, and more than
\* before that row, h is that row's first parent.  The lane lookup for the
\* commit itself and for merge parents never duplicates an awaited hash.
C2_DuplicateOnlyByFirstParent ==
    [][\A h \in Hashes :
          ( /\ Cardinality(AwaitingSlots(active_lanes', h)) > 1
            /\ Cardinality(AwaitingSlots(active_lanes', h))
                  > Cardinality(AwaitingSlots(active_lanes, h)) )
          => (row'.parents # <<>> /\ row'.parents[1] = h)]_vars

\* the last row's first-parent assignment left two slots awaiting the same hash
C2_Witness ==
    \E h \in Hashes :
        /\ Cardinality(AwaitingSlots(active_lanes, h)) > 1
        /\ row.parents # <<>>
        /\ row.parents[1] = h
        /\ row.hash # h

\* C3 as stated: active_lane_count is the number of occupied slots.
C3_CountIsOccupied ==
    n_rows > 0 => row.active_lane_count = Cardinality(OccupiedSlots(active_lanes))

\* C3, amended: active_lane_count is the length of the slot list after the
\* trailing free slots were trimmed; free interior slots are counted, so it is
\* at least the number of occupied slots, with equality exactly when no slot
\* of the list is free.
C3_CountIsLength ==
    n_rows > 0 =>
        /\ row.active_lane_count = Len(active_lanes)
        /\ row.active_lane_count >= Cardinality(OccupiedSlots(active_lanes))
        /\ (row.active_lane_count = Cardinality(OccupiedSlots(active_lanes))
              <=> AwaitingSlots(active_lanes, None) = {})

\* a row after which an interior slot is free
C3_Witness ==
    n_rows > 0 /\ AwaitingSlots(active_lanes, None) # {}

\* C4: a row has one edge per parent, edge i carrying parent i's hash, and the
\* first edge (if any) goes to the row's own lane.
C4_EdgesMatchParents ==
    n_rows > 0 =>
        /\ Len(row.edges) = Len(row.parents)
        /\ \A i \in 1..Len(row.edges) : row.edges[i].parent_hash = row.parents[i]
        /\ row.parents # <<>> => row.edges[1].to_lane = row.lane

\* a merge commit whose second parent went to another lane
C4_Witness ==
    /\ n_rows > 0
    /\ Len(row.parents) >= 2
    /\ Len(row.edges) >= 2
    /\ row.edges[2].to_lane # row.lane

(***************************************************************************)
(* ----------------------------- Record parser --------------------------- *)
(* log_parser.rs, parse_git_log_records.  A text is a sequence of          *)
(* characters; the two separators are characters of their own.             *)
(***************************************************************************)
\* pub const FIELD_SEP: char = '\u{001f}'
FIELD_SEP == "<US>"

\* pub const RECORD_SEP: char = '\u{001e}'
RECORD_SEP == "<RS>"

\* the characters trim_matches(['\r', '\n', ' ']) removes
RecordTrimChars == {"\r", "\n", " "}

\* the characters of the model's alphabet with the Unicode White_Space property
\* (str::trim, str::split_whitespace)
WhiteSpace == {" ", "\t", "\n", "\r"}

Digits == {"0", "1", "2", "3", "4", "5", "6", "7", "8", "9"}

DigitVal == ("0" :> 0) @@ ("1" :> 1) @@ ("2" :> 2) @@ ("3" :> 3) @@ ("4" :> 4) @@
            ("5" :> 5) @@ ("6" :> 6) @@ ("7" :> 7) @@ ("8" :> 8) @@ ("9" :> 9)

\* i64::MAX = 9223372036854775807, as digits
I64MaxDigits == <<9, 2, 2, 3, 3, 7, 2, 0, 3, 6, 8, 5, 4, 7, 7, 5, 8, 0, 7>>

\* -i64::MIN = 9223372036854775808, as digits
I64MinDigits == <<9, 2, 2, 3, 3, 7, 2, 0, 3, 6, 8, 5, 4, 7, 7, 5, 8, 0, 8>>

HasChar(s, c) == \E i \in 1..Len(s) : s[i] = c

FirstIndex(s, c) == SetMin({ i \in 1..Len(s) : s[i] = c })

Tail2(s, i) == SubSeq(s, i, Len(s))

\* str::split(sep): the pieces between the separators, empty pieces included
RECURSIVE split(_, _)
split(s, sep) ==
    IF ~HasChar(s, sep)
    THEN << s >>
    ELSE LET i == FirstIndex(s, sep)
         IN  << SubSeq(s, 1, i - 1) >> \o split(Tail2(s, i + 1), sep)

\* str::splitn(n, sep), n >= 1: at most n pieces, the last one holding the rest
RECURSIVE splitn(_, _, _)
splitn(n, s, sep) ==
    IF n <= 1 \/ ~HasChar(s, sep)
    THEN << s >>
    ELSE LET i == FirstIndex(s, sep)
         IN  << SubSeq(s, 1, i - 1) >> \o splitn(n - 1, Tail2(s, i + 1), sep)

RECURSIVE trim_start_matches(_, _)
trim_start_matches(s, chars) ==
    IF s # <<>> /\ s[1] \in chars THEN trim_start_matches(Tail(s), chars) ELSE s

RECURSIVE trim_end_matches(_, _)
trim_end_matches(s, chars) ==
    IF s # <<>> /\ s[Len(s)] \in chars
    THEN trim_end_matches(SubSeq(s, 1, Len(s) - 1), chars)
    ELSE s

\* no trimming at all
trim_matches_none(s, chars) == s

\* str::trim_matches(chars): both ends
trim_matches(s, chars) == trim_end_matches(trim_start_matches(s, chars), chars)

\* str::trim(): Unicode white space at both ends
trim(s) == trim_matches(s, WhiteSpace)

\* str::split_whitespace(): the maximal runs of non-white-space characters
RECURSIVE split_whitespace(_)
split_whitespace(s) ==
    LET t == trim_start_matches(s, WhiteSpace)
    IN  IF t = <<>>
        THEN <<>>
        ELSE IF \E i \in 1..Len(t) : t[i] \in WhiteSpace
        THEN LET i == SetMin({ j \in 1..Len(t) : t[j] \in WhiteSpace })
             IN  << SubSeq(t, 1, i - 1) >> \o split_whitespace(Tail2(t, i))
        ELSE << t >>

RECURSIVE strip_zeros(_)
strip_zeros(ds) ==
    IF Len(ds) > 1 /\ ds[1] = 0 THEN strip_zeros(Tail(ds)) ELSE ds

\* a <= b for digit sequences of the same length
RECURSIVE digits_leq(_, _)
digits_leq(a, b) ==
    IF a = <<>> THEN TRUE
    ELSE IF a[1] < b[1] THEN TRUE
    ELSE IF a[1] > b[1] THEN FALSE
    ELSE digits_leq(Tail(a), Tail(b))

\* whether the magnitude `ds` (no leading zeros) is at most `limit`
magnitude_fits(ds, limit) ==
    \/ Len(ds) < Len(limit)
    \/ Len(ds) = Len(limit) /\ digits_leq(ds, limit)

\* an i64, kept as sign and magnitude digits (the values exceed TLC's integers)
I64(neg, ds) == [neg |-> neg /\ ds # <<0>>, digits |-> ds]

\* str::parse::<i64>(): an optional sign, then one or more decimal digits, in range
parse_i64(s) ==
    LET signed == s # <<>> /\ s[1] \in {"+", "-"}
        neg    == s # <<>> /\ s[1] = "-"
        body   == IF signed THEN Tail(s) ELSE s
    IN  IF body = <<>> \/ \E i \in 1..Len(body) : body[i] \notin Digits
        THEN Err("invalid digit or empty")
        ELSE LET ds == strip_zeros([i \in 1..Len(body) |-> DigitVal[body[i]]])
             IN  IF magnitude_fits(ds, IF neg THEN I64MinDigits ELSE I64MaxDigits)
                 THEN Ok(I64(neg, ds))
                 ELSE Err("number out of range")

\* GitLgError::Parse(format!(...)): the message's kind and its two arguments
ParseError(what, got, text) ==
    [kind |-> "Parse", what |-> what, got |-> got, text |-> text]

\* lines 48-55: the parents field
parse_parents(field) ==
    IF trim(field) = <<>> THEN <<>> ELSE split_whitespace(field)

\* lines 28-35 with str::split instead of splitn(10, ..)
split_fields_all(record) == split(record, FIELD_SEP)

\* line 28: record.splitn(10, FIELD_SEP).collect()
split_fields(record) == splitn(10, record, FIELD_SEP)

\* lines 24-68: one record, after the emptiness test; parse_refs is total and is
\* left unapplied: the record keeps the decoration text
parse_record(record) ==
    LET fields == split_fields(record)
    IN  IF Len(fields) # 10
        THEN Err(ParseError("fields", Len(fields), record))
        ELSE LET authored  == parse_i64(fields[6])
                 committed == parse_i64(fields[7])
             IN  IF authored.tag = "Err"
                 THEN Err(ParseError("authored", 0, fields[6]))
                 ELSE IF committed.tag = "Err"
                 THEN Err(ParseError("committed", 0, fields[7]))
                 ELSE Ok([hash           |-> fields[1],
                          short_hash     |-> fields[2],
                          parents        |-> parse_parents(fields[3]),
                          author_name    |-> fields[4],
                          author_email   |-> fields[5],
                          authored_unix  |-> authored.value,
                          committed_unix |-> committed.value,
                          decorations    |-> fields[8],
                          subject        |-> fields[9],
                          body           |-> fields[10]])

\* the loop of lines 23-69 that skips a failed record instead of returning its error
RECURSIVE parse_records_lenient(_, _)
parse_records_lenient(raw_records, commits) ==
    IF raw_records = <<>>
    THEN Ok(commits)
    ELSE LET record == trim_matches(raw_records[1], RecordTrimChars)
         IN  IF record = <<>>
             THEN parse_records_lenient(Tail(raw_records), commits)
             ELSE LET r == parse_record(record)
                  IN  IF r.tag = "Err"
                      THEN parse_records_lenient(Tail(raw_records), commits)
                      ELSE parse_records_lenient(Tail(raw_records),
                                                 Append(commits, r.value))

\* lines 23-70: the loop over the raw records, `commits` the vector built so far
RECURSIVE parse_records(_, _)
parse_records(raw_records, commits) ==
    IF raw_records = <<>>
    THEN Ok(commits)
    ELSE LET record == trim_matches(raw_records[1], RecordTrimChars)
         IN  IF record = <<>>
             THEN parse_records(Tail(raw_records), commits)
             ELSE LET r == parse_record(record)
                  IN  IF r.tag = "Err"
                      THEN r
                      ELSE parse_records(Tail(raw_records), Append(commits, r.value))

\* pub fn parse_git_log_records(stdout: &str) -> Result<Vec<RawCommit>>
parse_git_log_records(text) == parse_records(split(text, RECORD_SEP), <<>>)

(***************************************************************************)
(* The log text handed to the parser: what `git log --pretty=format:...`   *)
(* (service.rs, run_log) or the test fixture prints.  A written record is  *)
(* [pre, fields, post, parents]: its field texts joined by FIELD_SEP,      *)
(* between paddings of line terminators and spaces; the parents field is   *)
(* the parent hashes joined by a space.  Records are joined by RECORD_SEP. *)
(***************************************************************************)
MaxRecords == 3

RECURSIVE join(_, _)
join(texts, sep) ==
    IF texts = <<>> THEN <<>>
    ELSE IF Len(texts) = 1 THEN texts[1]
    ELSE texts[1] \o << sep >> \o join(Tail(texts), sep)

\* 2^63 in decimal: an integer one above i64::MAX
TwoTo63Text == <<"9", "2", "2", "3", "3", "7", "2", "0", "3", "6",
                 "8", "5", "4", "7", "7", "5", "8", "0", "8">>

\* timestamp texts that are integers within i64, with the value each denotes
I64Texts == { [text |-> <<"7">>,           value |-> [neg |-> FALSE, digits |-> <<7>>]],
              [text |-> <<"-", "7">>,      value |-> [neg |-> TRUE,  digits |-> <<7>>]],
              [text |-> <<"+", "0", "7">>, value |-> [neg |-> FALSE, digits |-> <<7>>]] }

\* %H %h %P %an %ae %at %ct %D %s %b
LogFields(hash, parents, authored, committed, body) ==
    << hash, hash, join(parents, " "), <<"n">>, <<"e">>, authored, committed,
       <<>>, <<"s">>, body >>

Written(pre, fields, post, parents) ==
    [pre |-> pre, fields |-> fields, post |-> post, parents |-> parents]

\* the records written for a commit with hash h: well formed ones and damaged ones
RecordsOf(h) ==
    LET one == << <<"p">> >>
        two == << <<"p">>, <<"q">> >>
    IN  { Written(<<>>, LogFields(h, one, <<"7">>, <<"7">>, <<"x">>), <<>>, one),
          Written(<<"\n">>, LogFields(h, one, <<"7">>, <<"7">>, <<"x">>), <<"\r", "\n">>, one),
          Written(<<>>, LogFields(h, two, <<"-", "7">>, <<"7">>, <<>>), <<>>, two),
          Written(<<>>, LogFields(h, <<>>, <<"7">>, <<"+", "0", "7">>, <<"x">>), <<" ">>, <<>>),
          Written(<<>>, LogFields(h, one, <<"x">>, <<"7">>, <<"x">>), <<>>, one),
          Written(<<>>, LogFields(h, one, <<>>, <<"7">>, <<"x">>), <<>>, one),
          Written(<<>>, LogFields(h, one, <<"7">>, <<"-">>, <<"x">>), <<>>, one),
          Written(<<>>, LogFields(h, one, TwoTo63Text, <<"7">>, <<"x">>), <<>>, one),
          Written(<<>>, SubSeq(LogFields(h, one, <<"7">>, <<"7">>, <<"x">>), 1, 9), <<>>, one),
          Written(<<>>, LogFields(h, one, <<"7">>, <<"7">>, <<"x">>) \o << <<"y">> >>, <<>>, one),
          Written(<<>>, LogFields(h, one, <<"7">>, <<"x">>, <<"x">>) \o << <<"y">> >>, <<>>, one),
          Written(<<"\n">>, << h >>, <<>>, <<>>) }

\* records without a commit: empty, spaces and line terminators, a lone tab
BlankRecords ==
    { Written(<<>>, <<>>, <<>>, <<>>),
      Written(<<" ">>, <<>>, <<>>, <<>>),
      Written(<<"\r", "\n">>, <<>>, <<"\n">>, <<>>),
      Written(<<>>, << <<"\t">> >>, <<>>, <<>>) }

\* a second commit, to tell the order of the records
OtherRecords ==
    LET one == << <<"q">> >>
    IN  { Written(<<"\n">>, LogFields(<<"b">>, one, <<"7">>, <<"7">>, <<"x">>), <<>>, one),
          Written(<<"\n">>, LogFields(<<"b">>, one, <<"7">>, <<"x">>, <<"x">>), <<>>, one) }

RecordPool == RecordsOf(<<"a">>) \cup OtherRecords \cup BlankRecords

write_record(d) == d.pre \o join(d.fields, FIELD_SEP) \o d.post

write_log(records) ==
    join([i \in 1..Len(records) |-> write_record(records[i])], RECORD_SEP)

InitParse ==
    /\ GraphIdle
    /\ SearchIdle
    /\ ServiceIdle
    /\ CliIdle
    /\ batch \in SeqsUpTo(RecordPool, MaxRecords)
    /\ stdout = write_log(batch)
    /\ parsed = NotCalled

\* the call parse_git_log_records(&stdout)
Parse ==
    /\ parsed = NotCalled
    /\ parsed' = parse_git_log_records(stdout)
    /\ UNCHANGED <<batch, stdout, graph_vars, search_vars, service_vars, cli_vars>>

NextParse == Parse

SpecParse == InitParse /\ [][NextParse]_vars

(***************************************************************************)
(* ------------------------- Properties: record parser ------------------- *)
(* stated over the written records `batch` and the result `parsed`         *)
(***************************************************************************)
Called == parsed # NotCalled

\* the record's text between its paddings
Core(d) == join(d.fields, FIELD_SEP)

\* nothing but line terminators and spaces
EmptyRecord(d) == Core(d) = <<>>

\* nothing but white space of any kind
WhitespaceOnly(d) == \A i \in 1..Len(Core(d)) : Core(d)[i] \in WhiteSpace

IsI64Text(t) == \E e \in I64Texts : e.text = t

IsIntegerText(t) == IsI64Text(t) \/ t = TwoTo63Text

I64Value(t) == (CHOOSE e \in I64Texts : e.text = t).value

\* the indices of the records of the batch that satisfy P
Indices(P(_)) == { i \in 1..Len(batch) : P(batch[i]) }

\* the k-th smallest element of the set of numbers S
RECURSIVE Kth(_, _)
Kth(S, k) == IF k = 1 THEN SetMin(S) ELSE Kth(S \ {SetMin(S)}, k - 1)

\* commit c is the decoding of the written 10-field record d
DecodedFrom(c, d) ==
    /\ c.hash = d.fields[1]
    /\ c.short_hash = d.fields[2]
    /\ c.parents = d.parents
    /\ c.author_name = d.fields[4]
    /\ c.author_email = d.fields[5]
    /\ c.authored_unix = I64Value(d.fields[6])
    /\ c.committed_unix = I64Value(d.fields[7])
    /\ c.decorations = d.fields[8]
    /\ c.subject = d.fields[9]
    /\ c.body = d.fields[10]

\* C5 as stated: a non-empty record whose field count is not exactly 10, be it 9 or
\* 11, makes the call fail with a Parse error.
C5_Not10_Original(d) == ~EmptyRecord(d) /\ Len(d.fields) # 10
C5_FieldCountNot10IsError ==
    (Called /\ Indices(C5_Not10_Original) # {})
        => (parsed.tag = "Err" /\ parsed.error.kind = "Parse")

\* C5, amended: a record that is non-empty after its line terminators and spaces
\* are trimmed and has fewer than 10 fields makes the call fail with a Parse
\* error; a field-count error never reports 10 or more fields; a record with
\* more than 10 fields is accepted, the text after its ninth separator, further
\* separators included, being the body.
C5_TooFew(d) == ~EmptyRecord(d) /\ Len(d.fields) < 10
C5_Acceptable(d) ==
    \/ EmptyRecord(d)
    \/ /\ Len(d.fields) >= 10
       /\ IsI64Text(d.fields[6])
       /\ IsI64Text(d.fields[7])
C5_NonEmpty(d) == ~EmptyRecord(d)
C5_FewerThan10IsError ==
    Called =>
        /\ Indices(C5_TooFew) # {}
              => (parsed.tag = "Err" /\ parsed.error.kind = "Parse")
        /\ (parsed.tag = "Err" /\ parsed.error.what = "fields")
              => parsed.error.got < 10
        /\ Indices(C5_Acceptable) = 1..Len(batch)
              => /\ parsed.tag = "Ok"
                 /\ Len(parsed.value) = Cardinality(Indices(C5_NonEmpty))
                 /\ \A k \in 1..Len(parsed.value) :
                       LET d == batch[Kth(Indices(C5_NonEmpty), k)]
                       IN  parsed.value[k].body
                             = join(SubSeq(d.fields, 10, Len(d.fields)), FIELD_SEP)

\* an 11-field record was accepted and the 9-field record after it was refused
C5_Witness ==
    /\ Called
    /\ Len(batch) = 2
    /\ Len(batch[1].fields) = 11
    /\ Len(batch[2].fields) = 9
    /\ parsed.tag = "Err"
    /\ parsed.error.what = "fields"
    /\ parsed.error.got = 9

\* C6 as stated: a batch of records that are each whitespace-only or well formed
\* (10 fields, both timestamps integers) parses to one commit per non-blank
\* record, in input order.
C6_NonBlank_Original(d) == ~WhitespaceOnly(d)
C6_Good_Original(d) ==
    \/ WhitespaceOnly(d)
    \/ /\ Len(d.fields) = 10
       /\ IsIntegerText(d.fields[6])
       /\ IsIntegerText(d.fields[7])
C6_WellFormedBatchAnyWhitespace ==
    (Called /\ Indices(C6_Good_Original) = 1..Len(batch))
        => /\ parsed.tag = "Ok"
           /\ Len(parsed.value) = Cardinality(Indices(C6_NonBlank_Original))
           /\ \A k \in 1..Len(parsed.value) :
                 DecodedFrom(parsed.value[k], batch[Kth(Indices(C6_NonBlank_Original), k)])

\* C6, amended: a batch of records that are each empty once line terminators
\* ('\r', '\n') and spaces are trimmed, or well formed (10 fields, both
\* timestamps integers that fit an i64), parses to one commit per non-empty
\* record, the i-th commit decoded from the i-th non-empty record.
C6_Good(d) ==
    \/ EmptyRecord(d)
    \/ /\ Len(d.fields) = 10
       /\ IsI64Text(d.fields[6])
       /\ IsI64Text(d.fields[7])
C6_NonEmpty(d) == ~EmptyRecord(d)
C6_WellFormedBatch ==
    (Called /\ Indices(C6_Good) = 1..Len(batch))
        => /\ parsed.tag = "Ok"
           /\ Len(parsed.value) = Cardinality(Indices(C6_NonEmpty))
           /\ \A k \in 1..Len(parsed.value) :
                 DecodedFrom(parsed.value[k], batch[Kth(Indices(C6_NonEmpty), k)])

\* two commits around a record of line terminators, parsed in their order
C6_Witness ==
    /\ Called
    /\ Len(batch) = 3
    /\ C6_Good(batch[1]) /\ ~EmptyRecord(batch[1])
    /\ EmptyRecord(batch[2]) /\ batch[2].pre # <<>>
    /\ C6_Good(batch[3]) /\ ~EmptyRecord(batch[3])
    /\ batch[1].fields[1] # batch[3].fields[1]
    /\ parsed.tag = "Ok"
    /\ Len(parsed.value) = 2
    /\ parsed.value[1].hash = batch[1].fields[1]
    /\ parsed.value[2].hash = batch[3].fields[1]

\* C7 as stated: when some record is malformed (a field count other than 10, or
\* a timestamp that is not an integer) the result is the error of the first
\* malformed record.
C7_Malformed_Original(d) ==
    /\ ~EmptyRecord(d)
    /\ \/ Len(d.fields) # 10
       \/ ~IsIntegerText(d.fields[6])
       \/ ~IsIntegerText(d.fields[7])
C7_ExpectedError_Original(d) ==
    IF Len(d.fields) # 10
    THEN ParseError("fields", Len(d.fields), Core(d))
    ELSE IF ~IsIntegerText(d.fields[6])
    THEN ParseError("authored", 0, d.fields[6])
    ELSE ParseError("committed", 0, d.fields[7])
C7_FirstErrorAnyFieldCount ==
    (Called /\ Indices(C7_Malformed_Original) # {})
        => /\ parsed.tag = "Err"
           /\ parsed.error = C7_ExpectedError_Original(
                                 batch[SetMin(Indices(C7_Malformed_Original))])

\* C7, amended: when some record is malformed, that is, non-empty after trimming
\* with fewer than 10 fields, or with a sixth or seventh field that does not
\* parse as an i64, the result is the error of the first malformed record in
\* input order and carries no commits, whatever precedes or follows it; with
\* no malformed record the result is not an error.
C7_Malformed(d) ==
    /\ ~EmptyRecord(d)
    /\ \/ Len(d.fields) < 10
       \/ ~IsI64Text(d.fields[6])
       \/ ~IsI64Text(d.fields[7])
C7_ExpectedError(d) ==
    IF Len(d.fields) < 10
    THEN ParseError("fields", Len(d.fields), Core(d))
    ELSE IF ~IsI64Text(d.fields[6])
    THEN ParseError("authored", 0, d.fields[6])
    ELSE ParseError("committed", 0, d.fields[7])
C7_FirstError ==
    Called =>
        IF Indices(C7_Malformed) # {}
        THEN /\ parsed.tag = "Err"
             /\ DOMAIN parsed = {"tag", "error"}
             /\ parsed.error = C7_ExpectedError(batch[SetMin(Indices(C7_Malformed))])
        ELSE parsed.tag = "Ok"

\* a good record, then a malformed one whose error is returned, then another
\* malformed one with a different error
C7_Witness ==
    /\ Called
    /\ Len(batch) = 3
    /\ ~EmptyRecord(batch[1]) /\ ~C7_Malformed(batch[1])
    /\ C7_Malformed(batch[2])
    /\ C7_Malformed(batch[3])
    /\ C7_ExpectedError(batch[2]) # C7_ExpectedError(batch[3])
    /\ parsed.tag = "Err"
    /\ parsed.error = C7_ExpectedError(batch[2])

(***************************************************************************)
(* ----------------------------- Search engine --------------------------- *)
(* search.rs, filter_commits and search_parts.  A row carries the fields   *)
(* the search reads; rows are cloned whole.                                *)
(***************************************************************************)
MaxRows == 2

\* Option<String> of GitRef::target
NoTarget == [some |-> FALSE, value |-> <<>>]

SomeTarget(t) == [some |-> TRUE, value |-> t]

LowerOf ==
    ("A" :> "a") @@ ("B" :> "b") @@ ("C" :> "c") @@ ("D" :> "d") @@ ("E" :> "e") @@ ("F" :> "f")
      @@ ("G" :> "g") @@ ("H" :> "h") @@ ("I" :> "i") @@ ("J" :> "j") @@ ("K" :> "k") @@ ("L" :> "l")
      @@ ("M" :> "m") @@ ("N" :> "n") @@ ("O" :> "o") @@ ("P" :> "p") @@ ("Q" :> "q") @@ ("R" :> "r")
      @@ ("S" :> "s") @@ ("T" :> "t") @@ ("U" :> "u") @@ ("V" :> "v") @@ ("W" :> "w") @@ ("X" :> "x")
      @@ ("Y" :> "y") @@ ("Z" :> "z")

\* str::to_lowercase
to_lowercase(s) ==
    [i \in 1..Len(s) |-> IF s[i] \in DOMAIN LowerOf THEN LowerOf[s[i]] ELSE s[i]]

\* str::contains(&str)
contains(part, needle) ==
    \E i \in 0..(Len(part) - Len(needle)) :
        SubSeq(part, i + 1, i + Len(needle)) = needle

(***************************************************************************)
(* The regex crate, for patterns made of literal characters, '.', and      *)
(* groups '(' ... ')' without alternation or repetition: a pattern builds  *)
(* iff its parentheses are balanced, and it matches a text iff its atoms   *)
(* match consecutive characters somewhere in the text.                     *)
(***************************************************************************)
RECURSIVE paren_depth_ok(_, _)
paren_depth_ok(pattern, depth) ==
    IF pattern = <<>> THEN depth = 0
    ELSE IF pattern[1] = "(" THEN paren_depth_ok(Tail(pattern), depth + 1)
    ELSE IF pattern[1] = ")" THEN depth > 0 /\ paren_depth_ok(Tail(pattern), depth - 1)
    ELSE paren_depth_ok(Tail(pattern), depth)

regex_atoms(pattern) == SelectSeq(pattern, LAMBDA c : c \notin {"(", ")"})

\* a builder that accepts every pattern
regex_build_lenient(pattern, case_insensitive) ==
    Ok([atoms |-> regex_atoms(pattern), case_insensitive |-> case_insensitive])

\* RegexBuilder::new(pattern).case_insensitive(ci).build()
regex_build(pattern, case_insensitive) ==
    IF paren_depth_ok(pattern, 0)
    THEN Ok([atoms |-> regex_atoms(pattern), case_insensitive |-> case_insensitive])
    ELSE Err("regex syntax error")

regex_atom_matches(regex, atom, c) ==
    IF atom = "."
    THEN c # "\n"
    ELSE IF regex.case_insensitive
    THEN to_lowercase(<<atom>>) = to_lowercase(<<c>>)
    ELSE atom = c

\* Regex::is_match
regex_is_match(regex, part) ==
    \E i \in 0..(Len(part) - Len(regex.atoms)) :
        \A k \in 1..Len(regex.atoms) :
            regex_atom_matches(regex, regex.atoms[k], part[i + k])

\* the needle taken as typed
needle_of_untrimmed(query) == query.text

\* line 7: let needle = query.text.trim()
needle_of(query) == trim(query.text)

\* the needle left as typed
normalize_needle_asis(needle) == needle

\* line 32: let normalized_needle = needle.to_lowercase()
normalize_needle(needle) == to_lowercase(needle)

\* the three closures handed to search_parts (lines 19, 27 and 36)
RegexMatcher(regex) == [kind |-> "regex", regex |-> regex, needle |-> <<>>]

ExactMatcher(needle) == [kind |-> "exact", regex |-> <<>>, needle |-> needle]

LowercaseMatcher(normalized_needle) ==
    [kind |-> "lowercase", regex |-> <<>>, needle |-> normalized_needle]

\* a call of the closure: matches(part)
matches(matcher, part) ==
    IF matcher.kind = "regex" THEN regex_is_match(matcher.regex, part)
    ELSE IF matcher.kind = "exact" THEN contains(part, matcher.needle)
    ELSE contains(to_lowercase(part), matcher.needle)

\* lines 62-73: the loop over row.refs
refs_match(refs, matcher) ==
    \E i \in 1..Len(refs) :
        \/ matches(matcher, refs[i].name)
        \/ refs[i].target.some /\ matches(matcher, refs[i].target.value)

\* fn search_parts(row, query, matches) -> bool
search_parts(r, query, matcher) ==
    IF query.include_hash /\ (matches(matcher, r.hash) \/ matches(matcher, r.short_hash))
    THEN TRUE
    ELSE IF query.include_subject /\ matches(matcher, r.subject) THEN TRUE
    ELSE IF query.include_body /\ matches(matcher, r.body) THEN TRUE
    ELSE IF query.include_author /\ matches(matcher, r.author_name) THEN TRUE
    ELSE IF query.include_email /\ matches(matcher, r.author_email) THEN TRUE
    ELSE IF query.include_refs THEN refs_match(r.refs, matcher)
    ELSE FALSE

\* rows.iter().filter(|row| search_parts(row, query, ..)).cloned().collect()
filter_rows(rows, query, matcher) ==
    SelectSeq(rows, LAMBDA r : search_parts(r, query, matcher))

\* pub fn filter_commits(rows, query) -> Result<Vec<GraphRow>>
filter_commits(rows, query) ==
    LET needle == needle_of(query)
    IN  IF needle = <<>>
        THEN Ok(rows)
        ELSE IF query.use_regex
        THEN LET built == regex_build(needle, ~query.case_sensitive)
             IN  IF built.tag = "Err"
                 THEN Err(ParseError("regex", 0, needle))
                 ELSE Ok(filter_rows(rows, query, RegexMatcher(built.value)))
        ELSE IF query.case_sensitive
        THEN Ok(filter_rows(rows, query, ExactMatcher(needle)))
        ELSE Ok(filter_rows(rows, query, LowercaseMatcher(normalize_needle(needle))))

(***************************************************************************)
(* The inputs of the search: rows that hold the text "zaB" in one          *)
(* searchable place each, and queries over a few needles.                  *)
(***************************************************************************)
Filler == <<"z">>

Marked == <<"z", "a", "B">>

SearchRow(hash, short_hash, subject, body, author_name, author_email, refs) ==
    [hash |-> hash, short_hash |-> short_hash, subject |-> subject, body |-> body,
     author_name |-> author_name, author_email |-> author_email, refs |-> refs]

Ref(name, target) == [kind |-> "LocalBranch", name |-> name, target |-> target]

RowPool ==
    { SearchRow(Marked, Filler, Filler, Filler, Filler, Filler, <<>>),
      SearchRow(Filler, Marked, Filler, Filler, Filler, Filler, <<>>),
      SearchRow(Filler, Filler, Marked, Filler, Filler, Filler, <<>>),
      SearchRow(Filler, Filler, Filler, Marked, Filler, Filler, <<>>),
      SearchRow(Filler, Filler, Filler, Filler, Marked, Filler, <<>>),
      SearchRow(Filler, Filler, Filler, Filler, Filler, Marked, <<>>),
      SearchRow(Filler, Filler, Filler, Filler, Filler, Filler,
                << Ref(Filler, NoTarget), Ref(Marked, NoTarget) >>),
      SearchRow(Filler, Filler, Filler, Filler, Filler, Filler,
                << Ref(Filler, SomeTarget(Marked)) >>),
      SearchRow(Filler, Filler, Filler, Filler, Filler, Filler, <<>>) }

\* needles that build as regular expressions, typed with or without white space
ValidNeedles ==
    { <<"a", "B">>, <<"a", "b">>, <<"A", "B">>, <<" ", "a", "B", "\t">>,
      <<"a", ".">>, <<"(", "a", ")">> }

\* needles the regex crate rejects: an unclosed and an unopened group
InvalidRegexNeedles == { <<"(">>, <<" ", "a", ")">> }

\* no needle at all
BlankTexts == { <<>>, <<" ">>, <<"\t", "\n">> }

QueryTexts == ValidNeedles \cup InvalidRegexNeedles \cup BlankTexts

IncludeFlags == {"hash", "subject", "body", "author", "email", "refs"}

\* the include flags set: none, all, a single one, or all but one
IncludeChoices ==
    { {}, IncludeFlags } \cup { {f} : f \in IncludeFlags }
        \cup { IncludeFlags \ {f} : f \in IncludeFlags }

SearchQuery(text, case_sensitive, use_regex, enabled) ==
    [text |-> text, case_sensitive |-> case_sensitive, use_regex |-> use_regex,
     include_hash    |-> "hash" \in enabled,
     include_subject |-> "subject" \in enabled,
     include_body    |-> "body" \in enabled,
     include_author  |-> "author" \in enabled,
     include_email   |-> "email" \in enabled,
     include_refs    |-> "refs" \in enabled]

Queries ==
    { SearchQuery(t, cs, re, en) :
        t \in QueryTexts, cs \in BOOLEAN, re \in BOOLEAN, en \in IncludeChoices }

InitSearch == CoreIdle /\ ServiceIdle /\ CliIdle

\* the call filter_commits(&rows, &query)
FilterCommits(rows, query) ==
    /\ s_rows' = rows
    /\ s_query' = query
    /\ s_result' = filter_commits(rows, query)
    /\ UNCHANGED <<graph_vars, parse_vars, service_vars, cli_vars>>

\* one call, its arguments drawn from the rows and queries above
NextSearch ==
    /\ s_result = NotCalled
    /\ \E rows \in SeqsUpTo(RowPool, MaxRows), query \in Queries :
          FilterCommits(rows, query)

SpecSearch == InitSearch /\ [][NextSearch]_vars

(***************************************************************************)
(* ------------------------- Properties: search engine ------------------- *)
(***************************************************************************)
Searched == s_result # NotCalled

\* the texts of row r that the include flags of query q enable
EnabledTexts(r, q) ==
    (IF q.include_hash THEN {r.hash, r.short_hash} ELSE {})
    \cup (IF q.include_subject THEN {r.subject} ELSE {})
    \cup (IF q.include_body THEN {r.body} ELSE {})
    \cup (IF q.include_author THEN {r.author_name} ELSE {})
    \cup (IF q.include_email THEN {r.author_email} ELSE {})
    \cup (IF q.include_refs
          THEN { r.refs[i].name : i \in 1..Len(r.refs) }
               \cup { r.refs[i].target.value :
                        i \in { j \in 1..Len(r.refs) : r.refs[j].target.some } }
          ELSE {})

NoIncludeFlag(q) ==
    /\ ~q.include_hash /\ ~q.include_subject /\ ~q.include_body
    /\ ~q.include_author /\ ~q.include_email /\ ~q.include_refs

\* text t matches the trimmed needle of q under q's mode
ModeMatches(t, q) ==
    IF q.use_regex
    THEN regex_is_match(regex_build(trim(q.text), ~q.case_sensitive).value, t)
    ELSE IF q.case_sensitive
    THEN contains(t, trim(q.text))
    ELSE contains(to_lowercase(t), to_lowercase(trim(q.text)))

\* the positions of the rows with a matching enabled text
MatchingPositions(rows, q) ==
    { i \in 1..Len(rows) : \E t \in EnabledTexts(rows[i], q) : ModeMatches(t, q) }

\* the rows of `rows` at the positions P, in their order
RowsAt(rows, P) == [k \in 1..Cardinality(P) |-> rows[Kth(P, k)]]

\* C8: for a non-empty trimmed needle (that builds as a regex when use_regex is
\* set) the result is the subsequence of the rows having an enabled field that
\* matches under the mode: regex, exact-case substring, or lowercased substring.
\* So needle "AB" finds the subject "zaB" only when case_sensitive is false,
\* and with no include flag set the result is empty.
C8_FilterIsMatchingSubsequence ==
    (/\ Searched
     /\ trim(s_query.text) # <<>>
     /\ ~(s_query.use_regex /\ trim(s_query.text) \in { trim(t) : t \in InvalidRegexNeedles }))
        => /\ s_result.tag = "Ok"
           /\ s_result.value = RowsAt(s_rows, MatchingPositions(s_rows, s_query))
           /\ NoIncludeFlag(s_query) => s_result.value = <<>>
           /\ (s_query.text = <<"A", "B">> /\ s_query.include_subject)
                 => \A i \in 1..Len(s_rows) :
                       s_rows[i].subject = Marked
                         => ((\E k \in 1..Len(s_result.value) : s_result.value[k] = s_rows[i])
                               <=> ~s_query.case_sensitive)

\* needle "AB", case-insensitive and not a regex, keeps the second of two rows
C8_Witness ==
    /\ Searched
    /\ s_query.text = <<"A", "B">>
    /\ ~s_query.use_regex
    /\ ~s_query.case_sensitive
    /\ Len(s_rows) = 2
    /\ s_result.tag = "Ok"
    /\ s_result.value = << s_rows[2] >>
    /\ s_rows[1] # s_rows[2]

\* C9: with an empty or whitespace-only query text the result is the input rows,
\* unchanged and in their order, whatever the regex, case and include flags.
C9_BlankQueryIsIdentity ==
    (Searched /\ \A i \in 1..Len(s_query.text) : s_query.text[i] \in WhiteSpace)
        => s_result = Ok(s_rows)

\* a tab-and-newline text with use_regex set and no include flag returns both rows
C9_Witness ==
    /\ Searched
    /\ s_query.text = <<"\t", "\n">>
    /\ s_query.use_regex
    /\ NoIncludeFlag(s_query)
    /\ Len(s_rows) = 2
    /\ s_rows[1] # s_rows[2]
    /\ s_result.tag = "Ok"
    /\ s_result.value = s_rows

\* C10: with use_regex set and a non-empty needle that is not a valid regular
\* expression the result is a Parse error, also for an empty row list and for
\* a query with no include flag.
C10_InvalidRegexIsError ==
    (/\ Searched
     /\ s_query.use_regex
     /\ s_query.text \in InvalidRegexNeedles)
        => /\ s_result.tag = "Err"
           /\ s_result.error.kind = "Parse"
           /\ DOMAIN s_result = {"tag", "error"}

\* the unclosed group "(" searched in no rows with no include flag
C10_Witness ==
    /\ Searched
    /\ s_query.use_regex
    /\ s_query.text = <<"(">>
    /\ s_rows = <<>>
    /\ NoIncludeFlag(s_query)
    /\ s_result.tag = "Err"

(***************************************************************************)
(* ------------------------ File-contents filter ------------------------- *)
(* service.rs, graph_filtered and filter_commits_by_file_contents, and     *)
(* lib.rs of gitgraph-zed, filter_rows_by_file_contents.  git is the       *)
(* environment: it answers every `git grep` call with an outcome of its    *)
(* choice.                                                                 *)
(***************************************************************************)
MaxFileRows == 3

\* the size of a chunk of rows: 200 in rows.chunks(200), taken small here so
\* that the rows of a call span several chunks
ChunkRows == 2

\* Option<String> of CommitSearchQuery::file_path
NoPath == [some |-> FALSE, value |-> <<>>]

SomePath(p) == [some |-> TRUE, value |-> p]

\* Option<i32> of GitOutput::exit_code; None when a signal ended the process
NoCode == [some |-> FALSE, value |-> 0]

SomeCode(c) == [some |-> TRUE, value |-> c]

\* file_path.replace('\\', "/")
replace_backslash(s) == [i \in 1..Len(s) |-> IF s[i] = "\\" THEN "/" ELSE s[i]]

\* chunks_exact: the short last chunk is left out
RECURSIVE chunks_exact(_, _)
chunks_exact(rows, size) ==
    IF Len(rows) < size
    THEN <<>>
    ELSE << SubSeq(rows, 1, size) >> \o chunks_exact(Tail2(rows, size + 1), size)

\* <[T]>::chunks(size): consecutive chunks, the last one possibly shorter
RECURSIVE chunks(_, _)
chunks(rows, size) ==
    IF rows = <<>>
    THEN <<>>
    ELSE IF Len(rows) <= size
    THEN << rows >>
    ELSE << SubSeq(rows, 1, size) >> \o chunks(Tail2(rows, size + 1), size)

\* str::split_once(sep): the text before and after the first separator
split_once(s, sep) ==
    IF HasChar(s, sep)
    THEN LET i == FirstIndex(s, sep)
         IN  [some |-> TRUE, left |-> SubSeq(s, 1, i - 1), right |-> Tail2(s, i + 1)]
    ELSE [some |-> FALSE, left |-> <<>>, right |-> <<>>]

\* str::lines(): the pieces between line feeds, without a final empty piece and
\* without the carriage return that ends a piece
lines(s) ==
    LET pieces == split(s, "\n")
        kept == IF pieces[Len(pieces)] = <<>>
                THEN SubSeq(pieces, 1, Len(pieces) - 1)
                ELSE pieces
    IN  [i \in 1..Len(kept) |->
            IF kept[i] # <<>> /\ kept[i][Len(kept[i])] = "\r"
            THEN SubSeq(kept[i], 1, Len(kept[i]) - 1)
            ELSE kept[i]]

\* the loop over out.stdout.lines(): the text before the first ':' of each line
matched_in(text) ==
    LET ls == lines(text)
    IN  { split_once(ls[i], ":").left : i \in { j \in 1..Len(ls) : split_once(ls[j], ":").some } }

\* the argument vector of one call: grep -E|-F [-i] -n -e <text> <hashes> -- <path>
grep_args(search_query, chunk, normalized_path) ==
    [subcommand  |-> "grep",
     mode        |-> IF search_query.use_regex THEN "-E" ELSE "-F",
     ignore_case |-> ~search_query.case_sensitive,
     pattern     |-> search_query.text,
     revs        |-> [i \in 1..Len(chunk) |-> chunk[i].hash],
     path        |-> normalized_path]

\* every exit code a process reports is accepted
exit_ok_nonmissing(exit_code) == exit_code.some

\* matches!(out.exit_code, Some(0) | Some(1))
exit_ok(exit_code) == exit_code.some /\ exit_code.value \in {0, 1}

\* GitLgError::GitCommandFailed { args, exit_code, stdout, .. }
GitCommandFailed(args, exit_code, text) ==
    [kind |-> "GitCommandFailed", args |-> args, exit_code |-> exit_code, stdout |-> text]

\* GitLgError::Io, from GitRunner::exec when the process cannot be run
IoError(operation) == [kind |-> "Io", operation |-> operation]

\* the error strings of gitgraph-zed: "git grep failed (exit ..): .." and the
\* error of zed::process::Command::output
GitGrepFailed(status) == [kind |-> "GitGrepFailed", exit_code |-> status]

OutputFailed == [kind |-> "OutputFailed"]
\* service.rs, the body of `for chunk in rows.chunks(200)`, run over the chunks
\* left: every call made is recorded with the outcome git gave it
RECURSIVE grep_chunks(_, _, _, _, _, _)
grep_chunks(todo, outcomes, search_query, normalized_path, matched_hashes, calls) ==
    IF todo = <<>>
    THEN [tag |-> "Ok", matched_hashes |-> matched_hashes, calls |-> calls]
    ELSE LET args == grep_args(search_query, Head(todo), normalized_path)
             out == Head(outcomes)
             made == Append(calls, [args |-> args, out |-> out])
         IN  IF out.tag = "Err"
             THEN [tag |-> "Err", error |-> out.error, calls |-> made]
             ELSE IF ~exit_ok(out.value.exit_code)
             THEN [tag |-> "Err", calls |-> made,
                   error |-> GitCommandFailed(args, out.value.exit_code, out.value.stdout)]
             ELSE grep_chunks(Tail(todo), Tail(outcomes), search_query, normalized_path,
                              matched_hashes \cup matched_in(out.value.stdout), made)

\* fn filter_commits_by_file_contents(&self, repo_path, rows, search_query, file_path)
filter_commits_by_file_contents(rows, search_query, file_path, outcomes) ==
    IF rows = <<>> \/ trim(search_query.text) = <<>>
    THEN [result |-> Ok(rows), calls |-> <<>>]
    ELSE LET ran == grep_chunks(chunks(rows, ChunkRows), outcomes, search_query,
                                replace_backslash(file_path), {}, <<>>)
         IN  IF ran.tag = "Err"
             THEN [result |-> Err(ran.error), calls |-> ran.calls]
             ELSE IF ran.matched_hashes = {}
             THEN [result |-> Ok(<<>>), calls |-> ran.calls]
             ELSE [result |-> Ok(SelectSeq(rows, LAMBDA r : r.hash \in ran.matched_hashes)),
                   calls |-> ran.calls]

\* Some(file_path) of search_query.file_path.as_deref().map(str::trim)
\*     .filter(|p| !p.is_empty())
has_file_path(search_query) ==
    search_query.file_path.some /\ trim(search_query.file_path.value) # <<>>

\* pub fn graph_filtered(&self, repo_path, query, search_query), from the commits
\* self.graph() returned on: the value is data.commits
graph_filtered(commits, search_query, outcomes) ==
    LET has_search_text == trim(search_query.text) # <<>>
    IN  IF has_file_path(search_query)
        THEN filter_commits_by_file_contents(commits, search_query,
                                             trim(search_query.file_path.value), outcomes)
        ELSE IF has_search_text
        THEN [result |-> filter_commits(commits, search_query), calls |-> <<>>]
        ELSE [result |-> Ok(commits), calls |-> <<>>]

\* gitgraph-zed, the same loop in filter_rows_by_file_contents
RECURSIVE zed_grep_chunks(_, _, _, _, _, _)
zed_grep_chunks(todo, outcomes, search, normalized, matched_hashes, calls) ==
    IF todo = <<>>
    THEN [tag |-> "Ok", matched_hashes |-> matched_hashes, calls |-> calls]
    ELSE LET args == grep_args(search, Head(todo), normalized)
             out == Head(outcomes)
             made == Append(calls, [args |-> args, out |-> out])
         IN  IF out.tag = "Err"
             THEN [tag |-> "Err", error |-> OutputFailed, calls |-> made]
             ELSE IF ~exit_ok(out.value.exit_code)
             THEN [tag |-> "Err", error |-> GitGrepFailed(out.value.exit_code),
                   calls |-> made]
             ELSE zed_grep_chunks(Tail(todo), Tail(outcomes), search, normalized,
                                  matched_hashes \cup matched_in(out.value.stdout), made)

\* gitgraph-zed: fn filter_rows_by_file_contents(repo_root, rows, search, file_path)
filter_rows_by_file_contents(rows, search, file_path, outcomes) ==
    IF rows = <<>> \/ trim(search.text) = <<>>
    THEN [result |-> Ok(rows), calls |-> <<>>]
    ELSE LET ran == zed_grep_chunks(chunks(rows, ChunkRows), outcomes, search,
                                    replace_backslash(file_path), {}, <<>>)
         IN  IF ran.tag = "Err"
             THEN [result |-> Err(ran.error), calls |-> ran.calls]
             ELSE [result |-> Ok(SelectSeq(rows, LAMBDA r : r.hash \in ran.matched_hashes)),
                   calls |-> ran.calls]

\* gitgraph-zed: the error string "search failed: .."
SearchFailed == [kind |-> "SearchFailed"]

\* gitgraph-zed: run_gitgraph_search from `let filtered = ..` on, with the rows
\* built from the log and the search built from the parsed arguments
run_gitgraph_search(rows, search, outcomes) ==
    IF search.file_path.some
    THEN filter_rows_by_file_contents(rows, search, search.file_path.value, outcomes)
    ELSE LET filtered == filter_commits(rows, search)
         IN  [result |-> IF filtered.tag = "Err" THEN Err(SearchFailed) ELSE filtered,
              calls  |-> <<>>]

(***************************************************************************)
(* The inputs of the filter and the answers of git.  A row's subject holds *)
(* the needle or not, whatever git finds in the file at that revision.     *)
(***************************************************************************)
FileHashes == { <<"c", "1">>, <<"c", "2">> }

FileRow(hash, subject) == SearchRow(hash, hash, subject, Filler, Filler, Filler, <<>>)

FileRowPool == { FileRow(h, t) : h \in FileHashes, t \in {Marked, Filler} }

FileTexts == { <<"a", "B">>, <<" ", "a", "B">>, <<" ">> }

FilePaths == { NoPath, SomePath(<<" ">>), SomePath(<<"d", "\\", "f">>) }

\* a CommitSearchQuery with its file_path, every include flag set
FileQuery(text, case_sensitive, use_regex, file_path) ==
    [file_path |-> file_path] @@ SearchQuery(text, case_sensitive, use_regex, IncludeFlags)

FileQueries ==
    { FileQuery(t, cs, re, fp) :
        t \in FileTexts, cs \in BOOLEAN, re \in BOOLEAN, fp \in FilePaths }

\* what parse_search_args yields: a trimmed query that is not empty and, if any,
\* a trimmed path that is not empty, its backslashes replaced; default options
ZedQueries ==
    { FileQuery(<<"a", "B">>, FALSE, FALSE, fp) :
        fp \in { NoPath, SomePath(<<"d", "/", "f">>) } }

\* a line git grep -n prints for a match in a revision: <rev>:<path>:<line>:<text>
grep_line(rev, path) == rev \o <<":">> \o path \o <<":", "7", ":", "a", "B", "\n">>

\* the lines printed for the revisions of the call, in the order of the arguments
RECURSIVE grep_stdout(_, _, _)
grep_stdout(revs, reported, path) ==
    IF revs = <<>>
    THEN <<>>
    ELSE (IF Head(revs) \in reported THEN grep_line(Head(revs), path) ELSE <<>>)
             \o grep_stdout(Tail(revs), reported, path)

\* GitOutput { stdout, exit_code, .. }; reported is the set of revisions git found
\* a match in, from which stdout is written
GitOutput(args, reported, exit_code) ==
    [stdout    |-> grep_stdout(args.revs, reported, args.path),
     exit_code |-> exit_code,
     reported  |-> reported]

\* the outcomes of one call: the process cannot be run; no match (exit 1); matches
\* in some revisions of the call (exit 0); killed by a signal; a fatal error
\* (exit 128) after whatever was printed
GrepOutcomes(args) ==
    LET revs == { args.revs[i] : i \in 1..Len(args.revs) }
    IN  { Err(IoError("running git command")) }
          \cup { Ok(GitOutput(args, {}, SomeCode(1))) }
          \cup { Ok(GitOutput(args, R, SomeCode(0))) : R \in (SUBSET revs) \ {{}} }
          \cup { Ok(GitOutput(args, {}, NoCode)) }
          \cup { Ok(GitOutput(args, R, SomeCode(128))) : R \in SUBSET revs }

\* one outcome for each chunk
RECURSIVE GrepRuns(_, _, _)
GrepRuns(todo, search_query, normalized_path) ==
    IF todo = <<>>
    THEN { <<>> }
    ELSE { << o >> \o rest :
             o \in GrepOutcomes(grep_args(search_query, Head(todo), normalized_path)),
             rest \in GrepRuns(Tail(todo), search_query, normalized_path) }

\* the answers git may give during one call of the filter: none when the loop
\* over the chunks is not entered
GrepAnswers(rows, search_query, loop_entered, file_path) ==
    IF loop_entered /\ rows # <<>> /\ trim(search_query.text) # <<>>
    THEN GrepRuns(chunks(rows, ChunkRows), search_query, replace_backslash(file_path))
    ELSE { <<>> }

InitFile == CoreIdle /\ ServiceIdle /\ CliIdle

\* the call graph_filtered(repo_path, query, search_query)
GraphFiltered(commits, search_query, outcomes) ==
    LET done == graph_filtered(commits, search_query, outcomes)
    IN  /\ f_caller' = "service"
        /\ f_rows' = commits
        /\ f_query' = search_query
        /\ f_calls' = done.calls
        /\ f_result' = done.result
        /\ UNCHANGED <<core_vars, cli_vars, find_vars, expand_vars, resolve_vars, choose_vars,
                       load_vars, once_vars>>

\* the slash command /gitgraph-search of gitgraph-zed
RunGitgraphSearch(rows, search, outcomes) ==
    LET done == run_gitgraph_search(rows, search, outcomes)
    IN  /\ f_caller' = "zed"
        /\ f_rows' = rows
        /\ f_query' = search
        /\ f_calls' = done.calls
        /\ f_result' = done.result
        /\ UNCHANGED <<core_vars, cli_vars, find_vars, expand_vars, resolve_vars, choose_vars,
                       load_vars, once_vars>>

\* one call of either, its arguments and the answers of git drawn from the above
NextFile ==
    /\ f_result = NotCalled
    /\ \/ \E commits \in SeqsUpTo(FileRowPool, MaxFileRows), search_query \in FileQueries :
            \E outcomes \in GrepAnswers(commits, search_query, has_file_path(search_query),
                                        IF search_query.file_path.some
                                        THEN trim(search_query.file_path.value)
                                        ELSE <<>>) :
                GraphFiltered(commits, search_query, outcomes)
       \/ \E rows \in SeqsUpTo(FileRowPool, MaxFileRows), search \in ZedQueries :
            \E outcomes \in GrepAnswers(rows, search, search.file_path.some,
                                        search.file_path.value) :
                RunGitgraphSearch(rows, search, outcomes)

SpecFile == InitFile /\ [][NextFile]_vars
(***************************************************************************)
(* --------------------- Properties: file-contents filter ---------------- *)
(***************************************************************************)
\* graph_filtered returned, called with a path restriction and a needle
C11_Case ==
    /\ f_caller = "service"
    /\ has_file_path(f_query)
    /\ trim(f_query.text) # <<>>
    /\ f_result.tag = "Ok"

\* the union of the hashes git reported in the calls made
ReportedHashes ==
    UNION { f_calls[i].out.value.reported :
              i \in { j \in 1..Len(f_calls) : f_calls[j].out.tag = "Ok" } }

\* the number of chunks of ChunkRows rows that n rows make
ChunkCount(n) == (n + ChunkRows - 1) \div ChunkRows

\* the hashes of the k-th chunk of the rows
ChunkHashes(rows, k) ==
    [i \in 1..(IF k * ChunkRows <= Len(rows) THEN ChunkRows
               ELSE Len(rows) - (k - 1) * ChunkRows) |->
        rows[(k - 1) * ChunkRows + i].hash]

\* C11 as stated: with a path restriction and a needle, graph_filtered returns the
\* rows that pass the field filter (filter_commits with the same query) and whose
\* hash git grep reported in one of the calls, in input order.
C11_FieldFilterAndGrep ==
    C11_Case =>
        LET by_fields == filter_commits(f_rows, f_query)
        IN  /\ by_fields.tag = "Ok"
            /\ f_result.value
                 = SelectSeq(by_fields.value, LAMBDA r : r.hash \in ReportedHashes)

\* C11, amended: with a path restriction and a needle, both not blank, and every
\* git grep call ending with exit status 0 or 1, graph_filtered makes one call for
\* each consecutive chunk of the rows and returns the rows whose hash was reported
\* in one of the calls, in input order; the field filter is not applied.
C11_GrepOnly ==
    C11_Case =>
        /\ Len(f_calls) = ChunkCount(Len(f_rows))
        /\ \A k \in 1..Len(f_calls) : f_calls[k].args.revs = ChunkHashes(f_rows, k)
        /\ f_result.value = SelectSeq(f_rows, LAMBDA r : r.hash \in ReportedHashes)

\* two chunks with matches reported in both; a row the field filter rejects is
\* returned and a row is left out
C11_Witness ==
    /\ C11_Case
    /\ Len(f_calls) >= 2
    /\ f_calls[1].out.value.reported # {}
    /\ f_calls[2].out.value.reported # {}
    /\ Len(f_result.value) < Len(f_rows)
    /\ \E i \in 1..Len(f_result.value) :
          filter_commits(<< f_result.value[i] >>, f_query) = Ok(<<>>)

\* C12: in the file-contents filter, a git grep call that ends with an exit status
\* other than 0 or 1 (a missing exit code included) is the last call made and the
\* filter returns a command-failure error carrying that status, whatever was
\* reported before; after a call that ends with status 0 or 1 the next chunk, if
\* any, is queried.
C12_BadExitIsFatal ==
    \A i \in 1..Len(f_calls) :
        LET out == f_calls[i].out
        IN  out.tag = "Ok" =>
              IF out.value.exit_code.some /\ out.value.exit_code.value \in {0, 1}
              THEN i < ChunkCount(Len(f_rows)) => Len(f_calls) > i
              ELSE /\ i = Len(f_calls)
                   /\ f_result.tag = "Err"
                   /\ f_result.error.kind
                        = (IF f_caller = "service" THEN "GitCommandFailed" ELSE "GitGrepFailed")
                   /\ f_result.error.exit_code = out.value.exit_code

\* the first chunk reported a match, the second call was ended by a signal
C12_Witness ==
    /\ Len(f_calls) = 2
    /\ f_calls[1].out.tag = "Ok"
    /\ f_calls[1].out.value.exit_code = SomeCode(0)
    /\ f_calls[1].out.value.reported # {}
    /\ f_calls[2].out.tag = "Ok"
    /\ f_calls[2].out.value.exit_code = NoCode
    /\ f_result.tag = "Err"
(***************************************************************************)
(* ---------------------------- Action catalog --------------------------- *)
(* actions.rs: ActionTemplate, ActionCatalog::find and the text helpers it *)
(* shares with service.rs.  A text is a sequence of characters.            *)
(***************************************************************************)
MaxTemplates == 3

\* char::is_ascii_alphanumeric
AsciiAlphanumeric ==
    { "a", "b", "c", "d", "e", "f", "g", "h", "i", "j", "k", "l", "m", "n", "o", "p", "q",
      "r", "s", "t", "u", "v", "w", "x", "y", "z",
      "A", "B", "C", "D", "E", "F", "G", "H", "I", "J", "K", "L", "M", "N", "O", "P", "Q",
      "R", "S", "T", "U", "V", "W", "X", "Y", "Z" } \cup Digits

\* str::ends_with / str::starts_with
ends_with(s, suffix) ==
    Len(suffix) <= Len(s) /\ SubSeq(s, Len(s) - Len(suffix) + 1, Len(s)) = suffix

starts_with(s, prefix) ==
    Len(prefix) <= Len(s) /\ SubSeq(s, 1, Len(prefix)) = prefix

\* str::eq_ignore_ascii_case
eq_ignore_ascii_case(a, b) == to_lowercase(a) = to_lowercase(b)

\* the loop of sanitize_id_fragment over lowered.chars()
RECURSIVE sanitize_chars(_, _)
sanitize_chars(lowered, prev_dash) ==
    IF lowered = <<>>
    THEN <<>>
    ELSE IF Head(lowered) \in AsciiAlphanumeric
    THEN << Head(lowered) >> \o sanitize_chars(Tail(lowered), FALSE)
    ELSE IF ~prev_dash
    THEN << "-" >> \o sanitize_chars(Tail(lowered), TRUE)
    ELSE sanitize_chars(Tail(lowered), TRUE)

\* fn sanitize_id_fragment(text) -> String, the same in actions.rs and service.rs
sanitize_id_fragment(text) ==
    trim_matches(sanitize_chars(to_lowercase(text), FALSE), {"-"})

\* ActionParam { id, default_value, .. }
ActionParam(id, default_value) == [id |-> id, default_value |-> default_value]

\* ActionOption { id, flag, default_active, .. }
ActionOption(id, flag, default_active) ==
    [id |-> id, flag |-> flag, default_active |-> default_active]

\* ActionTemplate { id, title, args, raw_args, shell_script, params, options, .. }
ActionTemplate(id, title, args, raw_args, shell_script, params, options) ==
    [id |-> id, title |-> title, args |-> args, raw_args |-> raw_args,
     shell_script |-> shell_script, params |-> params, options |-> options]

\* Option<&ActionTemplate>
NoTemplate == [tag |-> "None"]

SomeTemplate(t) == [tag |-> "Some", value |-> t]

\* the key of min_by_key in find: (t.shell_script, t.params.len(), t.args.len())
find_key(t) == << IF t.shell_script THEN 1 ELSE 0, Len(t.params), Len(t.args) >>

\* the order of tuples: by the first component that differs
RECURSIVE key_less(_, _)
key_less(a, b) ==
    IF a = <<>> \/ b = <<>>
    THEN FALSE
    ELSE IF Head(a) # Head(b)
    THEN Head(a) < Head(b)
    ELSE key_less(Tail(a), Tail(b))

\* Iterator::min_by_key over a sequence of keys that is not empty: the position
\* of the first least key
first_min(keys) ==
    SetMin({ i \in 1..Len(keys) : \A j \in 1..Len(keys) : ~key_less(keys[j], keys[i]) })

\* candidates.min_by_key(find_key), None for no candidate
min_by_find_key(candidates) ==
    IF candidates = <<>>
    THEN NoTemplate
    ELSE SomeTemplate(candidates[first_min([i \in 1..Len(candidates) |->
                                                find_key(candidates[i])])])

\* the three filters of find (lines 234, 243 and 251-255)
id_suffix_candidates(templates, id) ==
    SelectSeq(templates, LAMBDA t : ends_with(t.id, << ":" >> \o id))

title_candidates(templates, id) ==
    SelectSeq(templates, LAMBDA t : sanitize_id_fragment(t.title) = id)

first_arg_candidates(templates, id) ==
    SelectSeq(templates, LAMBDA t : t.args # <<>> /\ eq_ignore_ascii_case(t.args[1], id))

\* the least key over the candidates of every stage together
find_merged(templates, id) ==
    LET exact == SelectSeq(templates, LAMBDA t : t.id = id)
    IN  IF exact # <<>>
        THEN SomeTemplate(exact[1])
        ELSE IF HasChar(id, ":")
        THEN NoTemplate
        ELSE min_by_find_key(id_suffix_candidates(templates, id)
                                \o title_candidates(templates, id)
                                \o first_arg_candidates(templates, id))

\* pub fn find(&self, id: &str) -> Option<&ActionTemplate>
find(templates, id) ==
    LET exact == SelectSeq(templates, LAMBDA t : t.id = id)
        suffix == min_by_find_key(id_suffix_candidates(templates, id))
        title == min_by_find_key(title_candidates(templates, id))
    IN  IF exact # <<>>
        THEN SomeTemplate(exact[1])
        ELSE IF HasChar(id, ":")
        THEN NoTemplate
        ELSE IF suffix.tag = "Some"
        THEN suffix
        ELSE IF title.tag = "Some"
        THEN title
        ELSE min_by_find_key(first_arg_candidates(templates, id))
(***************************************************************************)
(* The catalogs find is called on: templates that match the id "a" by the  *)
(* end of their id, by their title, by the start of their title or by      *)
(* their first argument, with various keys.                                *)
(***************************************************************************)
\* a template without parameters text of its own: raw_args is the joined args
FindTemplate(id, title, args, shell_script, n_params) ==
    ActionTemplate(id, title, args, join(args, " "), shell_script,
                   [i \in 1..n_params |-> ActionParam(<< "1" >>, <<>>)], <<>>)

FindPool ==
    { FindTemplate(<<"g", ":", "1", ":", "a">>, <<"A">>, << <<"x">> >>, FALSE, 1),
      FindTemplate(<<"g", ":", "2", ":", "a">>, <<"A">>, << <<"x">>, <<"y">> >>, TRUE, 0),
      FindTemplate(<<"g", ":", "3", ":", "b">>, <<"A", "!">>, <<>>, FALSE, 0),
      FindTemplate(<<"g", ":", "4", ":", "b">>, <<"A", " ", "b">>, << <<"x">> >>, FALSE, 0),
      FindTemplate(<<"g", ":", "5", ":", "b">>, <<"B">>, << <<"A">>, <<"y">> >>, FALSE, 0),
      FindTemplate(<<"g", ":", "6", ":", "c">>, <<"C">>, << <<"x">> >>, FALSE, 0),
      FindTemplate(<<"a">>, <<"C">>, << <<"x">>, <<"y">>, <<"y">> >>, TRUE, 1) }

\* a short id, the id of a template, and an id with ':' that only ends an id
FindIds == { <<"a">>, <<"g", ":", "1", ":", "a">>, <<"1", ":", "a">>, <<"b">> }

InitFind == CoreIdle /\ ServiceIdle /\ CliIdle

\* the call catalog.find(id)
Find(templates, id) ==
    /\ c_templates' = templates
    /\ c_id' = id
    /\ c_found' = find(templates, id)
    /\ UNCHANGED <<core_vars, cli_vars, file_vars, expand_vars, resolve_vars, choose_vars,
                   load_vars, once_vars>>

NextFind ==
    /\ c_found = NotCalled
    /\ \E templates \in SeqsUpTo(FindPool, MaxTemplates), id \in FindIds :
          Find(templates, id)

SpecFind == InitFind /\ [][NextFind]_vars

(***************************************************************************)
(* ------------------------ Properties: find ----------------------------- *)
(***************************************************************************)
\* the positions of the templates matched by exact id and at each stage
ExactAt == { i \in 1..Len(c_templates) : c_templates[i].id = c_id }

SuffixAt == { i \in 1..Len(c_templates) : ends_with(c_templates[i].id, << ":" >> \o c_id) }

TitleEqualAt ==
    { i \in 1..Len(c_templates) : sanitize_id_fragment(c_templates[i].title) = c_id }

TitlePrefixAt ==
    { i \in 1..Len(c_templates) :
        starts_with(sanitize_id_fragment(c_templates[i].title), c_id \o << "-" >>) }

FirstArgAt ==
    { i \in 1..Len(c_templates) :
        /\ c_templates[i].args # <<>>
        /\ to_lowercase(c_templates[i].args[1]) = to_lowercase(c_id) }

\* the result is a template of the stage with a least key in that stage
TakenFrom(stage) ==
    /\ c_found.tag = "Some"
    /\ \E i \in stage :
          /\ c_found.value = c_templates[i]
          /\ \A j \in stage : ~key_less(find_key(c_templates[j]), find_key(c_templates[i]))

\* C13: find(id) returns the (first) template whose id equals id when there is
\* one; otherwise none for an id with ':'; otherwise a template of the first stage
\* that has a candidate, in the order id suffix ':<id>', slug of the title equal
\* to the id, first argument equal ignoring ASCII case, with a least (shell
\* script, parameter count, argument count) key within that stage, whatever the
\* keys in the later stages; none when no stage has a candidate.
C13_FindStages ==
    c_found # NotCalled =>
        IF ExactAt # {}
        THEN c_found = SomeTemplate(c_templates[SetMin(ExactAt)])
        ELSE IF HasChar(c_id, ":")
        THEN c_found = NoTemplate
        ELSE IF SuffixAt # {}
        THEN TakenFrom(SuffixAt)
        ELSE IF TitleEqualAt # {}
        THEN TakenFrom(TitleEqualAt)
        ELSE IF FirstArgAt # {}
        THEN TakenFrom(FirstArgAt)
        ELSE c_found = NoTemplate

\* a candidate of the first stage is returned although the title stage and the
\* first-argument stage hold candidates with a smaller key
C13_Witness ==
    /\ c_found # NotCalled
    /\ ExactAt = {}
    /\ SuffixAt # {}
    /\ \E i \in SuffixAt, j \in TitleEqualAt \ SuffixAt, k \in FirstArgAt \ SuffixAt :
          /\ c_found = SomeTemplate(c_templates[i])
          /\ key_less(find_key(c_templates[j]), find_key(c_templates[i]))
          /\ key_less(find_key(c_templates[k]), find_key(c_templates[i]))

\* C14 as stated: for an id without ':' that no template matches by exact id or
\* by ':<id>' suffix, when the slug of some title starts with '<id>-' find returns
\* a template whose title slug equals the id or starts with '<id>-'.
C14_TitlePrefixIsCandidate ==
    ( /\ c_found # NotCalled
      /\ ~HasChar(c_id, ":")
      /\ ExactAt = {}
      /\ SuffixAt = {}
      /\ TitlePrefixAt # {} )
    => /\ c_found.tag = "Some"
       /\ \E i \in TitleEqualAt \cup TitlePrefixAt : c_found.value = c_templates[i]
(***************************************************************************)
(* ------------------------ Placeholder expansion ------------------------ *)
(* actions.rs, expand_placeholders.  The placeholder table is a function   *)
(* from keys to values.  The dynamic lookup is a function from the keys it *)
(* knows to its answer, Ok(value) or Err(error); for any other key it      *)
(* answers Ok(None).                                                       *)
(***************************************************************************)
MaxInputLen == 4

\* Option<String> answers of the lookup
NoValue == [some |-> FALSE, value |-> <<>>]

SomeValue(v) == [some |-> TRUE, value |-> v]

\* GitLgError::MissingPlaceholder(key)
MissingPlaceholder(key) == [kind |-> "MissingPlaceholder", key |-> key]

\* GitLgError::State(message)
StateError(message) == [kind |-> "State", message |-> message]

\* the call lookup(&key)
lookup_answer(lookup, key) ==
    IF key \in DOMAIN lookup THEN lookup[key] ELSE Ok(NoValue)

\* one digit only is read after a '$'
leading_digit_one(s) ==
    IF s # <<>> /\ Head(s) \in Digits THEN << Head(s) >> ELSE <<>>

\* the digits read by the loop over chars.peek() after a '$'
RECURSIVE leading_digits(_)
leading_digits(s) ==
    IF s # <<>> /\ Head(s) \in Digits
    THEN << Head(s) >> \o leading_digits(Tail(s))
    ELSE <<>>

\* the loop `while let Some(ch) = chars.next()` over the characters left; asked
\* records the keys the lookup is called with
RECURSIVE expand_from(_, _, _, _, _, _)
expand_from(input, rest, placeholders, lookup, out, asked) ==
    IF rest = <<>>
    THEN [result |-> Ok(out), asked |-> asked]
    ELSE IF Head(rest) = "{"
    THEN IF ~HasChar(Tail(rest), "}")
         THEN [result |-> Err(ParseError("unterminated placeholder", 0, input)),
               asked |-> asked]
         ELSE LET i == FirstIndex(Tail(rest), "}")
                  key == SubSeq(Tail(rest), 1, i - 1)
                  after == Tail2(Tail(rest), i + 1)
              IN  IF key \in DOMAIN placeholders
                  THEN expand_from(input, after, placeholders, lookup,
                                   out \o placeholders[key], asked)
                  ELSE LET answer == lookup_answer(lookup, key)
                           now_asked == Append(asked, key)
                       IN  IF answer.tag = "Err"
                           THEN [result |-> answer, asked |-> now_asked]
                           ELSE IF answer.value.some
                           THEN expand_from(input, after, placeholders, lookup,
                                            out \o answer.value.value, now_asked)
                           ELSE [result |-> Err(MissingPlaceholder(key)),
                                 asked |-> now_asked]
    ELSE IF Head(rest) = "$"
    THEN LET numeric == leading_digits(Tail(rest))
             key == << "$" >> \o numeric
             after == Tail2(Tail(rest), Len(numeric) + 1)
         IN  IF numeric = <<>>
             THEN expand_from(input, Tail(rest), placeholders, lookup,
                              Append(out, "$"), asked)
             ELSE IF key \in DOMAIN placeholders
             THEN expand_from(input, after, placeholders, lookup,
                              out \o placeholders[key], asked)
             ELSE [result |-> Err(MissingPlaceholder(key)), asked |-> asked]
    ELSE expand_from(input, Tail(rest), placeholders, lookup, Append(out, Head(rest)), asked)

\* an expansion that scans its own output once more
expand_rescanned(input, placeholders, lookup) ==
    LET first == expand_from(input, input, placeholders, lookup, <<>>, <<>>)
    IN  IF first.result.tag = "Err"
        THEN first
        ELSE expand_from(first.result.value, first.result.value, placeholders, lookup,
                         <<>>, first.asked)

\* expand_placeholders with the keys it asked the lookup for
expand_traced(input, placeholders, lookup) ==
    expand_from(input, input, placeholders, lookup, <<>>, <<>>)

\* pub fn expand_placeholders(input, placeholders, lookup) -> Result<String>
expand_placeholders(input, placeholders, lookup) ==
    expand_traced(input, placeholders, lookup).result
(***************************************************************************)
(* The inputs of the expansion: every short text over a few characters,    *)
(* the text of the unit test and one longer text; tables and lookups that  *)
(* know some of the keys.  Some values hold placeholder syntax themselves. *)
(***************************************************************************)
ExpandChars == { "{", "}", "$", "1", "A", "x" }

\* "merge {BRANCH_NAME} $1" of tests::expands_named_and_indexed_placeholders
TestInput ==
    << "m", "e", "r", "g", "e", " ", "{", "B", "R", "A", "N", "C", "H", "_", "N", "A", "M",
       "E", "}", " ", "$", "1" >>

BRANCH_NAME == << "B", "R", "A", "N", "C", "H", "_", "N", "A", "M", "E" >>

TestTable == (BRANCH_NAME :> << "m", "a", "i", "n" >>)
                @@ (<< "$", "1" >> :> << "f", "e", "a", "t", "u", "r", "e" >>)

\* "{A}{x}$11$}": a name of the table, a name of the lookup, digits, a lone '$'
MixedInput == << "{", "A", "}", "{", "x", "}", "$", "1", "1", "$", "}" >>

ExpandInputs == SeqsUpTo(ExpandChars, MaxInputLen) \cup { TestInput, MixedInput }

ExpandTables ==
    { <<>>,
      << "A" >> :> << "m" >>,
      << "$", "1" >> :> << "{", "A", "}" >>,
      (<< "A" >> :> << "m" >>) @@ (<< "$", "1" >> :> << "{", "A", "}" >>)
          @@ (<< "$", "1", "1" >> :> << "$", "1" >>),
      TestTable }

\* |_| Ok(None); a lookup that knows A and x; a lookup that fails for A
ExpandLookups ==
    { <<>>,
      (<< "A" >> :> Ok(SomeValue(<< "o" >>))) @@ (<< "x" >> :> Ok(SomeValue(<< "{", "x" >>))),
      << "A" >> :> Err(StateError("lookup failed")) }

InitExpand == CoreIdle /\ ServiceIdle /\ CliIdle

\* the call expand_placeholders(input, &placeholders, &lookup)
Expand(input, placeholders, lookup) ==
    LET done == expand_traced(input, placeholders, lookup)
    IN  /\ e_input' = input
        /\ e_placeholders' = placeholders
        /\ e_lookup' = lookup
        /\ e_asked' = done.asked
        /\ e_result' = done.result
        /\ UNCHANGED <<core_vars, cli_vars, file_vars, find_vars, resolve_vars, choose_vars,
                       load_vars, once_vars>>

NextExpand ==
    /\ e_result = NotCalled
    /\ \E input \in ExpandInputs, placeholders \in ExpandTables, lookup \in ExpandLookups :
          Expand(input, placeholders, lookup)

SpecExpand == InitExpand /\ [][NextExpand]_vars
(***************************************************************************)
(* -------------------- Properties: placeholder expansion ---------------- *)
(* A text falls into pieces from its start: '{' through the next '}', '$'  *)
(* with the digits that follow it, or a single character.                  *)
(***************************************************************************)
\* the position where the piece starting at i ends (past the text for a '{'
\* that no '}' follows)
PieceEnd(s, i) ==
    IF s[i] = "{"
    THEN IF \E j \in (i + 1)..Len(s) : s[j] = "}"
         THEN SetMin({ j \in (i + 1)..Len(s) : s[j] = "}" })
         ELSE Len(s) + 1
    ELSE IF s[i] = "$"
    THEN CHOOSE j \in i..Len(s) :
            /\ \A k \in (i + 1)..j : s[k] \in Digits
            /\ j = Len(s) \/ s[j + 1] \notin Digits
    ELSE i

\* the positions where the pieces start, from position i on
RECURSIVE PieceStarts(_, _)
PieceStarts(s, i) ==
    IF i > Len(s) THEN <<>> ELSE << i >> \o PieceStarts(s, PieceEnd(s, i) + 1)

\* the key of a placeholder piece: NAME of '{NAME}', or '$<digits>'
PieceKey(s, i) ==
    IF s[i] = "{" THEN SubSeq(s, i + 1, PieceEnd(s, i) - 1) ELSE SubSeq(s, i, PieceEnd(s, i))

IsNamePiece(s, i) == s[i] = "{"

IsIndexPiece(s, i) == s[i] = "$" /\ PieceEnd(s, i) > i

\* the lookup answers the key with a value
LookupKnows(lookup, key) ==
    key \in DOMAIN lookup /\ lookup[key].tag = "Ok" /\ lookup[key].value.some

PieceResolvable(s, i, table, lookup) ==
    IF IsNamePiece(s, i)
    THEN /\ PieceEnd(s, i) <= Len(s)
         /\ PieceKey(s, i) \in DOMAIN table \/ LookupKnows(lookup, PieceKey(s, i))
    ELSE IsIndexPiece(s, i) => PieceKey(s, i) \in DOMAIN table

Resolvable(s, table, lookup) ==
    LET starts == PieceStarts(s, 1)
    IN  \A n \in 1..Len(starts) : PieceResolvable(s, starts[n], table, lookup)

\* what a piece is replaced by
PieceValue(s, i, table, lookup) ==
    IF IsNamePiece(s, i)
    THEN IF PieceKey(s, i) \in DOMAIN table
         THEN table[PieceKey(s, i)]
         ELSE lookup[PieceKey(s, i)].value.value
    ELSE IF IsIndexPiece(s, i)
    THEN table[PieceKey(s, i)]
    ELSE << s[i] >>

RECURSIVE Concat(_)
Concat(texts) == IF texts = <<>> THEN <<>> ELSE Head(texts) \o Concat(Tail(texts))

Expansion(s, table, lookup) ==
    LET starts == PieceStarts(s, 1)
    IN  Concat([n \in 1..Len(starts) |-> PieceValue(s, starts[n], table, lookup)])

\* the names the lookup has to be asked for: those of the '{NAME}' pieces that
\* the table lacks, in order
NamesToAsk(s, table) ==
    LET starts == PieceStarts(s, 1)
        asking == SelectSeq(starts, LAMBDA i : IsNamePiece(s, i) /\ PieceKey(s, i) \notin DOMAIN table)
    IN  [n \in 1..Len(asking) |-> PieceKey(s, asking[n])]

\* C17: when every placeholder of the input is resolvable, expand_placeholders
\* returns the input with each '{NAME}' replaced by the table value of NAME if the
\* table has it and else by the value the lookup returns for NAME, each '$' with
\* digits replaced by the table value of '$<digits>', every other character
\* copied; the lookup is called for the names absent from the table only, from
\* left to right; "merge {BRANCH_NAME} $1" gives "merge main feature".
C17_ExpansionLeftToRight ==
    /\ ( e_result # NotCalled /\ Resolvable(e_input, e_placeholders, e_lookup) )
       => /\ e_result = Ok(Expansion(e_input, e_placeholders, e_lookup))
          /\ e_asked = NamesToAsk(e_input, e_placeholders)
    /\ ( e_result # NotCalled /\ e_input = TestInput /\ e_placeholders = TestTable )
       => e_result = Ok(<< "m", "e", "r", "g", "e", " ", "m", "a", "i", "n", " ",
                           "f", "e", "a", "t", "u", "r", "e" >>)

\* a name from the table, a name from the lookup, '$' with two digits and a lone
\* '$' in one input; the lookup was asked for x only
C17_Witness ==
    /\ e_input = MixedInput
    /\ << "A" >> \in DOMAIN e_placeholders
    /\ << "A" >> \in DOMAIN e_lookup
    /\ e_asked = << << "x" >> >>
    /\ e_result = Ok(<< "m", "{", "x", "$", "1", "$", "}" >>)
(***************************************************************************)
(* --------------------------- Action resolution ------------------------- *)
(* actions.rs, ActionContext::to_placeholder_map and                       *)
(* ActionCatalog::resolve_with_lookup.  A context is the map of its fields *)
(* that are set, its commit_hashes and its additional_placeholders.        *)
(***************************************************************************)
\* the placeholder each Option<String> field of ActionContext is stored under
PlaceholderNames ==
    ("branch_display_name" :> << "B", "R", "A", "N", "C", "H", "_", "D", "I", "S", "P", "L", "A", "Y", "_", "N", "A", "M", "E" >>)
      @@ ("branch_name" :> << "B", "R", "A", "N", "C", "H", "_", "N", "A", "M", "E" >>)
      @@ ("local_branch_name" :> << "L", "O", "C", "A", "L", "_", "B", "R", "A", "N", "C", "H", "_", "N", "A", "M", "E" >>)
      @@ ("branch_id" :> << "B", "R", "A", "N", "C", "H", "_", "I", "D" >>)
      @@ ("source_branch_name" :> << "S", "O", "U", "R", "C", "E", "_", "B", "R", "A", "N", "C", "H", "_", "N", "A", "M", "E" >>)
      @@ ("target_branch_name" :> << "T", "A", "R", "G", "E", "T", "_", "B", "R", "A", "N", "C", "H", "_", "N", "A", "M", "E" >>)
      @@ ("commit_hash" :> << "C", "O", "M", "M", "I", "T", "_", "H", "A", "S", "H" >>)
      @@ ("commit_body" :> << "C", "O", "M", "M", "I", "T", "_", "B", "O", "D", "Y" >>)
      @@ ("stash_name" :> << "S", "T", "A", "S", "H", "_", "N", "A", "M", "E" >>)
      @@ ("tag_name" :> << "T", "A", "G", "_", "N", "A", "M", "E" >>)
      @@ ("remote_name" :> << "R", "E", "M", "O", "T", "E", "_", "N", "A", "M", "E" >>)
      @@ ("default_remote_name" :> << "D", "E", "F", "A", "U", "L", "T", "_", "R", "E", "M", "O", "T", "E", "_", "N", "A", "M", "E" >>)

COMMIT_HASHES == << "C", "O", "M", "M", "I", "T", "_", "H", "A", "S", "H", "E", "S" >>

DEFAULT_REMOTE_NAME == << "D", "E", "F", "A", "U", "L", "T", "_", "R", "E", "M", "O", "T", "E", "_", "N", "A", "M", "E" >>

\* ActionContext { .., commit_hashes, additional_placeholders }
ActionContext(fields, commit_hashes, additional_placeholders) ==
    [fields |-> fields, commit_hashes |-> commit_hashes,
     additional_placeholders |-> additional_placeholders]

\* HashMap::extend: the entries of more replace those of map
extend(map, more) == more @@ map

\* pub fn to_placeholder_map(&self) -> HashMap<String, String>
to_placeholder_map(context) ==
    LET direct == [key \in { PlaceholderNames[f] : f \in DOMAIN context.fields } |->
                      context.fields[CHOOSE f \in DOMAIN context.fields :
                                        PlaceholderNames[f] = key]]
        hashes == IF context.commit_hashes # <<>>
                  THEN COMMIT_HASHES :> join(context.commit_hashes, " ")
                  ELSE <<>>
        remote == IF "default_remote_name" \in DOMAIN context.fields
                  THEN <<>>
                  ELSE IF "remote_name" \in DOMAIN context.fields
                  THEN DEFAULT_REMOTE_NAME :> context.fields["remote_name"]
                  ELSE <<>>
    IN  extend(extend(extend(direct, hashes), remote), context.additional_placeholders)

\* ActionRequest { template_id, params, enabled_options, context }
ActionRequest(template_id, params, enabled_options, context) ==
    [template_id |-> template_id, params |-> params,
     enabled_options |-> enabled_options, context |-> context]

\* ResolvedAction { id, title, args, shell_script, command_line, .. }
ResolvedAction(template, args, command_line) ==
    [id |-> template.id, title |-> template.title, args |-> args,
     shell_script |-> IF template.shell_script THEN SomeValue(command_line) ELSE NoValue,
     command_line |-> command_line]

\* fn numeric_placeholder_aliases(values): '$' + key for every key made of digits
numeric_placeholder_aliases(values) ==
    LET numeric == { key \in DOMAIN values : \A i \in 1..Len(key) : key[i] \in Digits }
    IN  [alias \in { << "$" >> \o key : key \in numeric } |-> values[Tail(alias)]]

\* fn tokenize_args(args), for texts without quotes, backslashes or '#', which
\* shlex::split cuts at white space as split_whitespace does
tokenize_args(args) == IF trim(args) = <<>> THEN <<>> ELSE split_whitespace(args)
\* the default is expanded strictly: a missing placeholder is an error too
default_value_strict(param, placeholders, lookup) ==
    expand_placeholders(param.default_value, placeholders, lookup)

\* lines 290-294: the value stored for a parameter the table lacks
default_value(param, placeholders, lookup) ==
    LET expanded == expand_placeholders(param.default_value, placeholders, lookup)
    IN  IF expanded.tag = "Ok"
        THEN expanded
        ELSE IF expanded.error.kind = "MissingPlaceholder"
        THEN Ok(param.default_value)
        ELSE expanded

\* lines 284-296: the loop over template.params
RECURSIVE default_params(_, _, _)
default_params(params, placeholders, lookup) ==
    IF params = <<>>
    THEN [tag |-> "Ok", placeholders |-> placeholders]
    ELSE LET param == Head(params)
         IN  IF param.id \in DOMAIN placeholders
                  \/ (<< "$" >> \o param.id) \in DOMAIN placeholders
             THEN default_params(Tail(params), placeholders, lookup)
             ELSE LET value == default_value(param, placeholders, lookup)
                  IN  IF value.tag = "Err"
                      THEN [tag |-> "Err", error |-> value.error,
                            placeholders |-> placeholders]
                      ELSE default_params(Tail(params),
                                          extend(placeholders, param.id :> value.value),
                                          lookup)

\* an unresolved placeholder expands to nothing
expand_token_or_empty(token, placeholders, lookup) ==
    LET expanded == expand_placeholders(token, placeholders, lookup)
    IN  IF expanded.tag = "Err" /\ expanded.error.kind = "MissingPlaceholder"
        THEN Ok(<<>>)
        ELSE expanded

\* expand_placeholders(token, &placeholders, &lookup)? of lines 303, 311, 317, 327
expand_token(token, placeholders, lookup) ==
    expand_placeholders(token, placeholders, lookup)

\* the tokens expanded in order, up to the first error
RECURSIVE expand_all(_, _, _, _)
expand_all(tokens, placeholders, lookup, args) ==
    IF tokens = <<>>
    THEN Ok(args)
    ELSE LET expanded == expand_token(Head(tokens), placeholders, lookup)
         IN  IF expanded.tag = "Err"
             THEN expanded
             ELSE expand_all(Tail(tokens), placeholders, lookup,
                             Append(args, expanded.value))

\* lines 306-308 and 323-325: the option is enabled
option_enabled(option, request) ==
    \/ option.id \in request.enabled_options
    \/ option.flag \in request.enabled_options
    \/ option.default_active

enabled_options(template, request) ==
    SelectSeq(template.options, LAMBDA option : option_enabled(option, request))

\* line 310: tokenize_args(&option.flag) of the enabled options, in order
RECURSIVE flag_tokens(_)
flag_tokens(options) ==
    IF options = <<>>
    THEN <<>>
    ELSE tokenize_args(Head(options).flag) \o flag_tokens(Tail(options))

\* lines 302-314: the texts pushed to args, before their expansion
arg_tokens(template, request) ==
    template.args \o flag_tokens(enabled_options(template, request))

\* lines 321-334: the flags of the enabled options appended to a shell script
RECURSIVE append_flags(_, _, _, _)
append_flags(options, placeholders, lookup, command_line) ==
    IF options = <<>>
    THEN Ok(command_line)
    ELSE LET expanded == expand_token(Head(options).flag, placeholders, lookup)
         IN  IF expanded.tag = "Err"
             THEN expanded
             ELSE append_flags(Tail(options), placeholders, lookup,
                               IF expanded.value # <<>>
                               THEN command_line \o << " " >> \o expanded.value
                               ELSE command_line)

\* lines 316-334: the command line
command_line_of(template, request, placeholders, lookup, args) ==
    IF template.shell_script
    THEN LET script == expand_token(template.raw_args, placeholders, lookup)
         IN  IF script.tag = "Err"
             THEN script
             ELSE append_flags(enabled_options(template, request), placeholders, lookup,
                               script.value)
    ELSE Ok(join(args, " "))

\* pub fn resolve_with_lookup(&self, request, lookup) -> Result<ResolvedAction>;
\* placeholders is the table after the loop over the parameters
resolve_with_lookup(templates, request, lookup) ==
    LET found == find(templates, request.template_id)
    IN  IF found.tag = "None"
        THEN [result |-> Err(StateError("unknown action template id")),
              placeholders |-> <<>>]
        ELSE LET template == found.value
                 initial == extend(to_placeholder_map(request.context), request.params)
                 defaulted == default_params(template.params, initial, lookup)
             IN  IF defaulted.tag = "Err"
                 THEN [result |-> Err(defaulted.error),
                       placeholders |-> defaulted.placeholders]
                 ELSE LET placeholders ==
                              extend(defaulted.placeholders,
                                     numeric_placeholder_aliases(defaulted.placeholders))
                          args == expand_all(arg_tokens(template, request), placeholders,
                                             lookup, <<>>)
                          command_line ==
                              command_line_of(template, request, placeholders, lookup,
                                              args.value)
                      IN  [placeholders |-> defaulted.placeholders,
                           result |->
                               IF args.tag = "Err" THEN args
                               ELSE IF command_line.tag = "Err" THEN command_line
                               ELSE Ok(ResolvedAction(template, args.value,
                                                      command_line.value))]
(***************************************************************************)
(* The inputs of a resolution: a catalog of one template put together from *)
(* a choice of arguments, options, script text and parameters; a request   *)
(* by the template's id, by a short id or by an unknown id; a lookup.      *)
(***************************************************************************)
ResolveId == << "g", ":", "1", ":", "t" >>

Braced(name) == << "{" >> \o name \o << "}" >>

ResolveArgs ==
    { << << "x" >> >>,
      << Braced(<< "A" >>) >>,
      << Braced(<< "B" >>) >>,
      << << "$", "1" >> >>,
      << << "$", "2" >>, Braced(DEFAULT_REMOTE_NAME) >>,
      << Braced(<< "B" >>), Braced(<< "C" >>) >>,
      << << "{", "A" >>, Braced(<< "B" >>) >> }

ResolveOptions ==
    { <<>>,
      << ActionOption(<< "o", "1" >>, Braced(<< "B" >>), FALSE) >>,
      << ActionOption(<< "o", "1" >>, Braced(<< "C" >>), TRUE) >>,
      << ActionOption(<< "o", "1" >>, << "-", "f", " ", "$", "1" >>, FALSE) >> }

\* the raw_args of a shell script; None stands for a template that is none
ResolveScripts ==
    { NoValue,
      SomeValue(Braced(<< "A" >>) \o << ";", "x" >>),
      SomeValue(Braced(<< "D" >>) \o << ";", "x" >>) }

ResolveParams ==
    { <<>>,
      << ActionParam(<< "1" >>, << "d" >>) >>,
      << ActionParam(<< "1" >>, Braced(<< "B" >>)) >>,
      << ActionParam(<< "1" >>, << "{", "A" >>) >>,
      << ActionParam(<< "1" >>, Braced(<< "A" >>)), ActionParam(<< "2" >>, << "$", "1" >>) >>,
      << ActionParam(<< "1" >>, Braced(<< "B" >>)), ActionParam(<< "2" >>, Braced(<< "1" >>)) >> }

ResolveTemplate(args, options, script, params) ==
    ActionTemplate(ResolveId, << "T" >>, args,
                   IF script.some THEN script.value ELSE join(args, " "),
                   script.some, params, options)

ResolveContexts ==
    { ActionContext(<<>>, <<>>, <<>>),
      ActionContext("remote_name" :> << "o" >>, << << "c", "1" >>, << "c", "2" >> >>,
                    << "A" >> :> << "m" >>) }

ResolveRequests ==
    { ActionRequest(id, params, enabled, context) :
        id \in { ResolveId, << "t" >>, << "z" >> },
        params \in { <<>>, << "1" >> :> << "v" >>, << "$", "1" >> :> << "w" >> },
        enabled \in { {}, { << "o", "1" >> } },
        context \in ResolveContexts }

ResolveLookups ==
    { <<>>,
      << "B" >> :> Ok(SomeValue(<< "o" >>)),
      << "B" >> :> Err(StateError("lookup failed")) }

InitResolve == CoreIdle /\ ServiceIdle /\ CliIdle

\* the call ActionCatalog { templates: vec![template] }.resolve_with_lookup(request, lookup)
Resolve(template, request, lookup) ==
    LET resolved == resolve_with_lookup(<< template >>, request, lookup)
    IN  /\ r_template' = template
        /\ r_request' = request
        /\ r_lookup' = lookup
        /\ r_placeholders' = resolved.placeholders
        /\ r_result' = resolved.result
        /\ UNCHANGED <<core_vars, cli_vars, file_vars, find_vars, expand_vars, choose_vars,
                       load_vars, once_vars>>

NextResolve ==
    /\ r_result = NotCalled
    /\ \E args \in ResolveArgs, options \in ResolveOptions, script \in ResolveScripts,
          params \in ResolveParams, request \in ResolveRequests, lookup \in ResolveLookups :
          Resolve(ResolveTemplate(args, options, script, params), request, lookup)

SpecResolve == InitResolve /\ [][NextResolve]_vars
(***************************************************************************)
(* ----------------------- Properties: resolution ------------------------ *)
(* Stated with the pieces of a text, not with expand_placeholders.         *)
(***************************************************************************)
\* the template was found and the resolution has run
Resolved ==
    /\ r_result # NotCalled
    /\ r_request.template_id \in { r_template.id, << "t" >> }

\* the piece is a placeholder that cannot be expanded
PieceFails(s, i, table, lookup) == ~PieceResolvable(s, i, table, lookup)

\* '{NAME}' with NAME absent from the table and the lookup returning none, or
\* '$<digits>' absent from the table
PieceUnresolved(s, i, table, lookup) ==
    IF IsNamePiece(s, i)
    THEN /\ PieceEnd(s, i) <= Len(s)
         /\ PieceKey(s, i) \notin DOMAIN table
         /\ lookup_answer(lookup, PieceKey(s, i)) = Ok(NoValue)
    ELSE IsIndexPiece(s, i) /\ PieceKey(s, i) \notin DOMAIN table

\* the error a failing piece gives
PieceError(s, i, table, lookup) ==
    IF IsNamePiece(s, i) /\ PieceEnd(s, i) > Len(s)
    THEN ParseError("unterminated placeholder", 0, s)
    ELSE IF IsNamePiece(s, i) /\ lookup_answer(lookup, PieceKey(s, i)).tag = "Err"
    THEN lookup_answer(lookup, PieceKey(s, i)).error
    ELSE MissingPlaceholder(PieceKey(s, i))

\* the errors of the failing pieces of a text, from left to right
TextErrors(s, table, lookup) ==
    LET failing == SelectSeq(PieceStarts(s, 1),
                             LAMBDA i : PieceFails(s, i, table, lookup))
    IN  [n \in 1..Len(failing) |-> PieceError(s, failing[n], table, lookup)]

\* the keys of the unresolved placeholders of a text
UnresolvedKeys(s, table, lookup) ==
    LET starts == PieceStarts(s, 1)
    IN  { PieceKey(s, starts[n]) :
            n \in { m \in 1..Len(starts) : PieceUnresolved(s, starts[m], table, lookup) } }

\* the table before the parameters: the context's map extended by the request's
InitialTable == extend(to_placeholder_map(r_request.context), r_request.params)

\* the value stored for a parameter whose default has no fatal failure
StoredDefault(text, table) ==
    IF Resolvable(text, table, r_lookup) THEN Expansion(text, table, r_lookup) ELSE text

\* the table after the first k parameters of the template
RECURSIVE TableAfter(_)
TableAfter(k) ==
    IF k = 0
    THEN InitialTable
    ELSE LET table == TableAfter(k - 1)
             param == r_template.params[k]
         IN  IF param.id \in DOMAIN table \/ (<< "$" >> \o param.id) \in DOMAIN table
             THEN table
             ELSE (param.id :> StoredDefault(param.default_value, table)) @@ table

\* parameter k is not in the table when its turn comes
Absent(k) ==
    LET table == TableAfter(k - 1)
        param == r_template.params[k]
    IN  param.id \notin DOMAIN table /\ (<< "$" >> \o param.id) \notin DOMAIN table

\* the errors of the default of parameter k against the table of its turn
DefaultErrors(k) ==
    TextErrors(r_template.params[k].default_value, TableAfter(k - 1), r_lookup)

\* the default of parameter k is expanded and fails otherwise than by a missing
\* placeholder
FatalDefault(k) ==
    /\ Absent(k)
    /\ DefaultErrors(k) # <<>>
    /\ DefaultErrors(k)[1].kind # "MissingPlaceholder"

FatalParams == { k \in 1..Len(r_template.params) : FatalDefault(k) }

\* the parameters whose turn came
ParamsDone ==
    IF FatalParams = {} THEN Len(r_template.params) ELSE SetMin(FatalParams) - 1

\* the table the texts are expanded against
FinalTable ==
    extend(TableAfter(ParamsDone), numeric_placeholder_aliases(TableAfter(ParamsDone)))

\* the texts expanded after the parameters, in the order of their expansion
ResolveTexts ==
    LET enabled == SelectSeq(r_template.options,
                             LAMBDA option : option_enabled(option, r_request))
    IN  r_template.args
          \o Concat([n \in 1..Len(enabled) |-> tokenize_args(enabled[n].flag)])
          \o ( IF r_template.shell_script
               THEN << r_template.raw_args >> \o [n \in 1..Len(enabled) |-> enabled[n].flag]
               ELSE <<>> )

\* the errors of the failing pieces of the texts, in the order of expansion
ResolveErrors ==
    Concat([n \in 1..Len(ResolveTexts) |->
               TextErrors(ResolveTexts[n], FinalTable, r_lookup)])

HasUnresolved ==
    \E n \in 1..Len(ResolveTexts) :
        UnresolvedKeys(ResolveTexts[n], FinalTable, r_lookup) # {}

\* C15 as stated: if an argument token, an enabled option's flag text or the
\* shell script contains a placeholder that neither the table nor the lookup
\* resolves, resolve_with_lookup fails with MissingPlaceholder naming that key.
C15_EveryKeyNamed ==
    Resolved =>
        \A n \in 1..Len(ResolveTexts) :
            \A key \in UnresolvedKeys(ResolveTexts[n], FinalTable, r_lookup) :
                r_result = Err(MissingPlaceholder(key))

\* C15: if an argument token, an enabled option's flag text or the shell script
\* contains a placeholder that neither the table nor the lookup resolves,
\* resolve_with_lookup returns an error and no ResolvedAction; when no parameter
\* default fails fatally the error is that of the first failing piece in the
\* order of expansion, so it is MissingPlaceholder naming the first unresolved
\* key unless an unterminated '{' or a lookup error comes earlier; and a
\* MissingPlaceholder error always names an unresolved key of one of the texts.
C15_FailsAtFirstFailure ==
    ( Resolved /\ HasUnresolved )
       => /\ r_result.tag = "Err"
          /\ FatalParams = {} => r_result = Err(ResolveErrors[1])
          /\ r_result.error.kind = "MissingPlaceholder"
                => \E n \in 1..Len(ResolveTexts) :
                      r_result.error.key
                         \in UnresolvedKeys(ResolveTexts[n], FinalTable, r_lookup)

\* the flag of an enabled option holds the only unresolved placeholder, '$1',
\* and the resolution fails naming it
C15_Witness ==
    /\ Resolved
    /\ r_template.args = << Braced(<< "B" >>) >>
    /\ << "B" >> \in DOMAIN r_lookup /\ r_lookup[<< "B" >>].tag = "Ok"
    /\ Len(r_template.options) = 1
    /\ r_template.options[1].flag = << "-", "f", " ", "$", "1" >>
    /\ r_request.enabled_options = { << "o", "1" >> }
    /\ ~r_template.shell_script
    /\ HasUnresolved
    /\ r_result = Err(MissingPlaceholder(<< "$", "1" >>))

\* C16: for each parameter absent from the table under its id and '$'+id when
\* its turn comes, the default is expanded against the table of that moment:
\* the expansion is stored under the id if it succeeds, the raw default if it
\* fails with MissingPlaceholder, and the resolution goes on; the first default
\* that fails otherwise (unterminated '{', lookup error) ends the resolution
\* with that error.
C16_DefaultsDowngradeMissing ==
    Resolved
       => /\ r_placeholders = TableAfter(ParamsDone)
          /\ FatalParams # {}
                => r_result = Err(DefaultErrors(SetMin(FatalParams))[1])
          /\ FatalParams = {}
                => /\ \A k \in 1..Len(r_template.params) :
                         ( Absent(k) /\ DefaultErrors(k) # <<>> )
                            => r_placeholders[r_template.params[k].id]
                                  = r_template.params[k].default_value
                   /\ ( ResolveErrors = <<>> ) => r_result.tag = "Ok"

\* the default '{B}' of parameter 1 is kept raw, the default '{1}' of parameter 2
\* expands to it, and the resolution succeeds
C16_Witness ==
    /\ Resolved
    /\ Len(r_template.params) = 2
    /\ r_template.params[1].default_value = Braced(<< "B" >>)
    /\ r_lookup = <<>>
    /\ r_request.params = <<>>
    /\ r_placeholders[<< "1" >>] = Braced(<< "B" >>)
    /\ r_placeholders[<< "2" >>] = Braced(<< "B" >>)
    /\ r_template.args = << << "$", "2" >>, Braced(DEFAULT_REMOTE_NAME) >>
    /\ r_result.tag = "Ok"
    /\ r_result.value.args = << Braced(<< "B" >>), << "o" >> >>
(***************************************************************************)
(* ----------------------- Short template ids ---------------------------- *)
(* service.rs, normalize_action_request and choose_template_for_short_id.  *)
(***************************************************************************)
GIT_CONFIG == << "G", "I", "T", "_", "C", "O", "N", "F", "I", "G", ":" >>

GIT_EXEC == << "G", "I", "T", "_", "E", "X", "E", "C", ":" >>

\* fn merge_default_context(context, default_remote_name) -> ActionContext
merge_default_context(context, default_remote_name) ==
    LET remote == IF "remote_name" \in DOMAIN context.fields
                  THEN <<>>
                  ELSE "remote_name" :> default_remote_name
        default_remote == IF "default_remote_name" \in DOMAIN context.fields
                          THEN <<>>
                          ELSE "default_remote_name" :> default_remote_name
    IN  [context EXCEPT !.fields = default_remote @@ remote @@ context.fields]

\* Regex \{([^}]+)\} captures_iter: group 1 of the matches, leftmost first, none
\* overlapping
RECURSIVE captures_iter(_)
captures_iter(text) ==
    IF ~HasChar(text, "{")
    THEN <<>>
    ELSE LET i == FirstIndex(text, "{")
             rest == Tail2(text, i + 1)
         IN  IF ~HasChar(rest, "}")
             THEN <<>>
             ELSE LET j == FirstIndex(rest, "}")
                  IN  IF j = 1
                      THEN captures_iter(Tail2(rest, 2))
                      ELSE << SubSeq(rest, 1, j - 1) >> \o captures_iter(Tail2(rest, j + 1))

\* check_text: the arguments joined, the raw arguments and the parameter defaults
RECURSIVE push_defaults(_, _)
push_defaults(check_text, params) ==
    IF params = <<>>
    THEN check_text
    ELSE push_defaults(check_text \o << " " >> \o Head(params).default_value, Tail(params))

check_text_of(t) == push_defaults(join(t.args, " ") \o << " " >> \o t.raw_args, t.params)

\* every template counts as needing nothing
missing_zero(t, available) == 0

\* the count `missing` of the min_by_key closure
missing(t, available) ==
    Len(SelectSeq(captures_iter(check_text_of(t)),
                  LAMBDA name : /\ ~starts_with(name, GIT_CONFIG)
                                /\ ~starts_with(name, GIT_EXEC)
                                /\ name \notin DOMAIN available))

\* the key of min_by_key: (missing, t.shell_script, t.params.len(), t.args.len())
choose_key(t, available) == << missing(t, available) >> \o find_key(t)

\* the second filter: the title's slug is the short id or starts with it and '-'
title_prefix_candidates(templates, short_id) ==
    SelectSeq(templates,
              LAMBDA t : \/ sanitize_id_fragment(t.title) = short_id
                         \/ starts_with(sanitize_id_fragment(t.title), short_id \o << "-" >>))

\* the candidates of the first filter that lets a template through
short_id_candidates(templates, short_id) ==
    IF id_suffix_candidates(templates, short_id) # <<>>
    THEN id_suffix_candidates(templates, short_id)
    ELSE IF title_prefix_candidates(templates, short_id) # <<>>
    THEN title_prefix_candidates(templates, short_id)
    ELSE first_arg_candidates(templates, short_id)

\* fn choose_template_for_short_id(catalog, short_id, context, params) -> Option<String>
choose_template_for_short_id(templates, short_id, context, params) ==
    LET candidates == short_id_candidates(templates, short_id)
        available == extend(to_placeholder_map(context), params)
    IN  IF candidates = <<>>
        THEN NoValue
        ELSE SomeValue(candidates[first_min([i \in 1..Len(candidates) |->
                                                choose_key(candidates[i], available)])].id)

\* fn normalize_action_request(request, catalog, default_remote_name) -> ActionRequest
normalize_action_request(request, templates, default_remote_name) ==
    LET context == merge_default_context(request.context, default_remote_name)
        best_id == choose_template_for_short_id(templates, request.template_id, context,
                                                request.params)
    IN  IF HasChar(request.template_id, ":") \/ ~best_id.some
        THEN [request EXCEPT !.context = context]
        ELSE [request EXCEPT !.context = context, !.template_id = best_id.value]

(***************************************************************************)
(* The inputs: catalogs of up to MaxTemplates templates, among them the    *)
(* two ':merge' templates, and requests by short and by full id.           *)
(***************************************************************************)
ChooseTemplate(id, title, args, script, params) ==
    ActionTemplate(id, title, args,
                   IF script.some THEN script.value ELSE join(args, " "),
                   script.some, params, <<>>)

MergeId == << "m", "e", "r", "g", "e" >>

ChoosePool ==
    { ChooseTemplate(<< "g", ":", "1", ":", "a" >>, << "A" >>,
                     << << "x" >>, Braced(<< "A" >>) >>, NoValue, <<>>),
      ChooseTemplate(<< "g", ":", "2", ":", "a" >>, << "B" >>, << << "x" >> >>,
                     SomeValue(Braced(<< "B" >>) \o << ";", "x" >>), <<>>),
      ChooseTemplate(<< "h", ":", "1", ":", "a" >>, << "A" >>,
                     << << "x" >>, Braced(PlaceholderNames["remote_name"]) >>, NoValue,
                     << ActionParam(<< "1" >>, Braced(<< "B" >>)) >>),
      ChooseTemplate(<< "g", ":", "3", ":", "b" >>, << "A", " ", "b" >>,
                     << Braced(GIT_CONFIG \o << "u" >>), << "{", "}" >>, << "{" >>,
                        << "A", "}" >> >>,
                     NoValue, <<>>),
      ChooseTemplate(<< "g", ":", "4", ":", "c" >>, << "C" >>,
                     << << "A" >>, Braced(<< "B" >>) >>, NoValue, <<>>),
      ChooseTemplate(<< "b", ":", "1", ":" >> \o MergeId, << "M" >>,
                     << MergeId, Braced(BRANCH_NAME) >>, NoValue, <<>>),
      ChooseTemplate(<< "d", ":", "1", ":" >> \o MergeId, << "M" >>,
                     << MergeId, Braced(PlaceholderNames["source_branch_name"]),
                        Braced(PlaceholderNames["target_branch_name"]) >>,
                     NoValue, <<>>) }

ChooseIds == { << "a" >>, MergeId, << "g", ":", "1", ":", "a" >>, << "z" >> }

\* the parameters and the context of a request
ChooseTables ==
    { << <<>>, ActionContext(<<>>, <<>>, <<>>) >>,
      << <<>>, ActionContext("branch_name" :> << "m", "a", "i", "n" >>, <<>>, <<>>) >>,
      << <<>>, ActionContext("target_branch_name" :> << "m", "a", "i", "n" >>, <<>>,
                             << "B" >> :> << "v" >>) >>,
      << << "A" >> :> << "v" >>, ActionContext(<<>>, <<>>, <<>>) >> }

ChooseRequests ==
    { ActionRequest(id, table[1], {}, table[2]) : id \in ChooseIds, table \in ChooseTables }

origin == << "o", "r", "i", "g", "i", "n" >>

InitChoose == CoreIdle /\ ServiceIdle /\ CliIdle

\* the call normalize_action_request(request, &self.actions, default_remote_name)
NormalizeActionRequest(templates, request) ==
    /\ n_templates' = templates
    /\ n_request' = request
    /\ n_result' = normalize_action_request(request, templates, origin)
    /\ UNCHANGED <<core_vars, cli_vars, file_vars, find_vars, expand_vars, resolve_vars,
                   load_vars, once_vars>>

NextChoose ==
    /\ n_result = NotCalled
    /\ \E templates \in SeqsUpTo(ChoosePool, MaxTemplates), request \in ChooseRequests :
          NormalizeActionRequest(templates, request)

SpecChoose == InitChoose /\ [][NextChoose]_vars

(***************************************************************************)
(* ---------------------- Properties: short ids -------------------------- *)
(***************************************************************************)
\* the positions of the candidates at each stage
ShortSuffixAt ==
    { i \in 1..Len(n_templates) :
        ends_with(n_templates[i].id, << ":" >> \o n_request.template_id) }

ShortTitleAt ==
    { i \in 1..Len(n_templates) :
        LET slug == sanitize_id_fragment(n_templates[i].title)
        IN  slug = n_request.template_id
               \/ starts_with(slug, n_request.template_id \o << "-" >>) }

ShortFirstArgAt ==
    { i \in 1..Len(n_templates) :
        /\ n_templates[i].args # <<>>
        /\ to_lowercase(n_templates[i].args[1]) = to_lowercase(n_request.template_id) }

\* the candidates of the first stage that has any
ShortCandidates ==
    IF ShortSuffixAt # {} THEN ShortSuffixAt
    ELSE IF ShortTitleAt # {} THEN ShortTitleAt
    ELSE ShortFirstArgAt

\* the texts of a template laid end to end with single spaces
TextsOf(t) ==
    join(t.args \o << t.raw_args >> \o [k \in 1..Len(t.params) |-> t.params[k].default_value],
         " ")

\* the positions where a '{NAME}' occurrence starts: a '{' that is the first one
\* since the last '}', followed by a character other than '}' and, later, a '}'
OccurrenceStarts(text) ==
    { i \in 1..Len(text) :
        /\ text[i] = "{"
        /\ i < Len(text) /\ text[i + 1] # "}"
        /\ \E j \in (i + 2)..Len(text) : text[j] = "}"
        /\ \A k \in 1..(i - 1) :
              text[k] = "{" => \E m \in (k + 1)..(i - 1) : text[m] = "}" }

OccurrenceName(text, i) ==
    SubSeq(text, i + 1, SetMin({ j \in (i + 2)..Len(text) : text[j] = "}" }) - 1)

\* the table the occurrences are looked up in: the context with the default
\* remote filled in, extended by the request's parameters
MergedTable ==
    LET fields == n_request.context.fields
        filled == [f \in DOMAIN fields \cup { "remote_name", "default_remote_name" } |->
                      IF f \in DOMAIN fields THEN fields[f] ELSE origin]
    IN  extend(to_placeholder_map([n_request.context EXCEPT !.fields = filled]),
               n_request.params)

\* the occurrences of template i that the merged table cannot satisfy
MissingOf(i) ==
    LET text == TextsOf(n_templates[i])
    IN  Cardinality({ p \in OccurrenceStarts(text) :
                        /\ ~starts_with(OccurrenceName(text, p), GIT_CONFIG)
                        /\ ~starts_with(OccurrenceName(text, p), GIT_EXEC)
                        /\ OccurrenceName(text, p) \notin DOMAIN MergedTable })

\* template i is to be preferred to template j
Preferred(i, j) ==
    LET a == n_templates[i]
        b == n_templates[j]
    IN  \/ MissingOf(i) < MissingOf(j)
        \/ /\ MissingOf(i) = MissingOf(j)
           /\ \/ ~a.shell_script /\ b.shell_script
              \/ /\ a.shell_script = b.shell_script
                 /\ \/ Len(a.params) < Len(b.params)
                    \/ /\ Len(a.params) = Len(b.params)
                       /\ Len(a.args) < Len(b.args)

\* the best candidates: those no candidate is preferred to
Best == { i \in ShortCandidates : \A j \in ShortCandidates : ~Preferred(j, i) }

Normalized == n_result # NotCalled

\* C18: for a template id without ':', the request is rewritten to the id of the
\* candidate of the first stage with candidates that has the fewest unsatisfied
\* '{NAME}' occurrences, then is no shell script, then has the fewest parameters,
\* then the fewest argument tokens (the first of them in catalog order); without
\* a candidate, and for an id with ':', the id stays; of the two ':merge'
\* templates the one needing only the satisfied {BRANCH_NAME} is selected.
C18_FewestMissingWins ==
    Normalized
       => /\ ( ~HasChar(n_request.template_id, ":") /\ ShortCandidates # {} )
                => n_result.template_id = n_templates[SetMin(Best)].id
          /\ ( HasChar(n_request.template_id, ":") \/ ShortCandidates = {} )
                => n_result.template_id = n_request.template_id
          /\ ( /\ n_request.template_id = MergeId
               /\ DOMAIN n_request.context.fields = { "branch_name" }
               /\ \E i \in 1..Len(n_templates) :
                     n_templates[i].id = << "b", ":", "1", ":" >> \o MergeId )
                => n_result.template_id = << "b", ":", "1", ":" >> \o MergeId

\* the shell script whose only placeholder is satisfied is chosen before the
\* plain template that comes first and misses its placeholder
C18_Witness ==
    /\ Normalized
    /\ n_request.template_id = << "a" >>
    /\ Len(n_templates) = 2
    /\ n_templates[1].id = << "g", ":", "1", ":", "a" >>
    /\ n_templates[2].id = << "g", ":", "2", ":", "a" >>
    /\ MissingOf(1) = 2 /\ MissingOf(2) = 0
    /\ n_result.template_id = << "g", ":", "2", ":", "a" >>
(***************************************************************************)
(* ------------------------ Built-in templates --------------------------- *)
(* actions.rs, parse_builtin_actions and convert_raw_action.  The text of  *)
(* the definitions has been read by serde into a RawActionsFile, or it is  *)
(* no valid JSON; a RawActionsFile maps each scope to its raw actions.     *)
(***************************************************************************)
MaxActions == 2

\* ActionScope::as_str
as_str ==
    ("Global" :> << "g", "l", "o", "b", "a", "l" >>)
      @@ ("BranchDrop" :> << "b", "r", "a", "n", "c", "h", "-", "d", "r", "o", "p" >>)
      @@ ("Commit" :> << "c", "o", "m", "m", "i", "t" >>)
      @@ ("Commits" :> << "c", "o", "m", "m", "i", "t", "s" >>)
      @@ ("Stash" :> << "s", "t", "a", "s", "h" >>)
      @@ ("Tag" :> << "t", "a", "g" >>)
      @@ ("Branch" :> << "b", "r", "a", "n", "c", "h" >>)

\* the scopes in the order of `groups`
groups == << "Global", "BranchDrop", "Commit", "Commits", "Stash", "Tag", "Branch" >>

\* usize::to_string: the decimal digits
RECURSIVE to_string(_)
to_string(n) ==
    LET digit == << "0", "1", "2", "3", "4", "5", "6", "7", "8", "9" >>[(n % 10) + 1]
    IN  IF n < 10 THEN << digit >> ELSE Append(to_string(n \div 10), digit)

\* RawAction { title, description, args, params, options, .. }
RawAction(title, description, args, params, options) ==
    [title |-> title, description |-> description, args |-> args,
     params |-> params, options |-> options]

\* RawOption { value, default_active, .. }
RawOption(value, default_active) == [value |-> value, default_active |-> default_active]

\* fn choose_title(title, description, args) -> String
choose_title(title, description, args) ==
    LET given == trim(IF title.some THEN title.value ELSE <<>>)
    IN  IF given # <<>>
        THEN given
        ELSE IF description.some /\ trim(description.value) # <<>>
        THEN IF split_once(trim(description.value), "(").some
             THEN trim(split_once(trim(description.value), "(").left)
             ELSE trim(description.value)
        ELSE join(args, " ")

\* fn is_shell_script(raw_args) -> bool
is_shell_script(raw_args) ==
    \/ contains(raw_args, << "&", "&" >>)
    \/ contains(raw_args, << "|", "|" >>)
    \/ HasChar(raw_args, ";")

\* fn convert_raw_param(index, raw) -> ActionParam, index counted from 0
convert_raw_param(index, raw) == ActionParam(to_string(index + 1), raw)

\* fn convert_raw_option(index, raw) -> ActionOption
convert_raw_option(index, raw) ==
    ActionOption(sanitize_id_fragment(raw.value \o << "-" >> \o to_string(index + 1)),
                 raw.value,
                 IF raw.default_active.some THEN raw.default_active.value ELSE FALSE)

\* the id without the position within the scope
template_id_by_title(scope, index, title) ==
    as_str[scope] \o << ":" >> \o sanitize_id_fragment(title)

\* format!("{}:{}:{}", scope.as_str(), index + 1, sanitize_id_fragment(&title))
template_id(scope, index, title) ==
    as_str[scope] \o << ":" >> \o to_string(index + 1) \o << ":" >>
        \o sanitize_id_fragment(title)

\* fn convert_raw_action(scope, index, raw) -> ActionTemplate
convert_raw_action(scope, index, raw) ==
    LET raw_args == IF raw.args.some THEN raw.args.value ELSE <<>>
        args == tokenize_args(raw_args)
        title == choose_title(raw.title, raw.description, args)
        raw_params == IF raw.params.some THEN raw.params.value ELSE <<>>
        raw_options == IF raw.options.some THEN raw.options.value ELSE <<>>
    IN  ActionTemplate(template_id(scope, index, title), title, args, raw_args,
                       is_shell_script(raw_args),
                       [i \in 1..Len(raw_params) |-> convert_raw_param(i - 1, raw_params[i])],
                       [i \in 1..Len(raw_options) |->
                           convert_raw_option(i - 1, raw_options[i])])

\* the loop over groups, from group g on
RECURSIVE convert_groups(_, _)
convert_groups(raw, g) ==
    IF g > Len(groups)
    THEN <<>>
    ELSE [i \in 1..Len(raw[groups[g]]) |->
             convert_raw_action(groups[g], i - 1, raw[groups[g]][i])]
           \o convert_groups(raw, g + 1)

\* what serde_json::from_str gives for a text that is no RawActionsFile
InvalidJson == [tag |-> "InvalidJson"]

\* fn parse_builtin_actions() -> Result<Vec<ActionTemplate>>
parse_builtin_actions(raw) ==
    IF raw = InvalidJson
    THEN Err(ParseError("invalid default actions json", 0, <<>>))
    ELSE Ok(convert_groups(raw, 1))

(***************************************************************************)
(* The definition sets: up to MaxActions raw actions in the scopes branch  *)
(* and branch-drop, none or one in each other scope.  Two raw actions get  *)
(* the title "Drop", one from its title and one from its description.      *)
(***************************************************************************)
RawPool ==
    { RawAction(SomeValue(<< "D", "r", "o", "p" >>), NoValue, SomeValue(<< "x" >>),
                NoValue, NoValue),
      RawAction(NoValue, SomeValue(<< "D", "r", "o", "p", " ", "(", "i", "t", ")" >>),
                SomeValue(<< "x", ";", "y" >>), SomeValue(<< << "d" >>, << "e" >> >>),
                NoValue),
      RawAction(SomeValue(<< " " >>), NoValue, SomeValue(<< "d", "r", "o", "p", " ", "1" >>),
                NoValue,
                SomeValue(<< RawOption(<< "-", "-", "f" >>, NoValue),
                             RawOption(<< "-", "q" >>, SomeValue(TRUE)) >>)),
      RawAction(SomeValue(<< "1", ":", "D", "r", "o", "p" >>), NoValue, NoValue,
                NoValue, NoValue) }

RawActionsFile(branch, branch_drop, other) ==
    [scope \in { groups[g] : g \in 1..Len(groups) } |->
        IF scope = "Branch" THEN branch
        ELSE IF scope = "BranchDrop" THEN branch_drop
        ELSE other]

RawFiles ==
    { RawActionsFile(branch, branch_drop, other) :
        branch \in SeqsUpTo(RawPool, MaxActions),
        branch_drop \in SeqsUpTo(RawPool, MaxActions),
        other \in { <<>>, << CHOOSE raw \in RawPool : raw.args = SomeValue(<< "x" >>) >> } }
      \cup { InvalidJson }

InitLoad == CoreIdle /\ ServiceIdle /\ CliIdle

\* the call parse_builtin_actions() on the embedded definitions
ParseBuiltinActions(raw) ==
    /\ l_raw' = raw
    /\ l_templates' = parse_builtin_actions(raw)
    /\ UNCHANGED <<core_vars, cli_vars, file_vars, find_vars, expand_vars, resolve_vars,
                   choose_vars, once_vars>>

NextLoad ==
    /\ l_templates = NotCalled
    /\ \E raw \in RawFiles : ParseBuiltinActions(raw)

SpecLoad == InitLoad /\ [][NextLoad]_vars

(***************************************************************************)
(* -------------------- Properties: built-in templates ------------------- *)
(***************************************************************************)
Loaded == l_templates # NotCalled /\ l_templates.tag = "Ok"

\* the number of raw actions in the groups before group g
RECURSIVE Before(_)
Before(g) == IF g = 1 THEN 0 ELSE Before(g - 1) + Len(l_raw[groups[g - 1]])

\* the group the template at position p comes from, and its place in the group
GroupOf(p) == CHOOSE g \in 1..Len(groups) :
                 Before(g) < p /\ p <= Before(g) + Len(l_raw[groups[g]])

PlaceOf(p) == p - Before(GroupOf(p))

\* C19: the templates loaded from a definition set are as many as its raw
\* actions, each has the id '<scope>:<place within its scope, from 1>:<slug of
\* its title>', and no two of them have the same id.
C19_IdsPairwiseDistinct ==
    Loaded
       => LET templates == l_templates.value
          IN  /\ Len(templates) = Before(Len(groups)) + Len(l_raw[groups[Len(groups)]])
              /\ \A p \in 1..Len(templates) :
                    templates[p].id
                       = as_str[groups[GroupOf(p)]] \o << ":" >> \o to_string(PlaceOf(p))
                            \o << ":" >> \o sanitize_id_fragment(templates[p].title)
              /\ \A p, q \in 1..Len(templates) :
                    p # q => templates[p].id # templates[q].id

\* two raw actions of the scope branch with the same title, one of the scope
\* branch-drop with that title too
C19_Witness ==
    /\ Loaded
    /\ Len(l_raw["Branch"]) = 2
    /\ Len(l_raw["BranchDrop"]) >= 1
    /\ \E p, q, r \in 1..Len(l_templates.value) :
          /\ p < q /\ q < r
          /\ l_templates.value[p].id
                = << "b", "r", "a", "n", "c", "h", "-", "d", "r", "o", "p", ":", "1", ":",
                     "d", "r", "o", "p" >>
          /\ l_templates.value[q].id
                = << "b", "r", "a", "n", "c", "h", ":", "1", ":", "d", "r", "o", "p" >>
          /\ l_templates.value[r].id
                = << "b", "r", "a", "n", "c", "h", ":", "2", ":", "d", "r", "o", "p" >>
(***************************************************************************)
(* ------------------------ The built-in catalog ------------------------- *)
(* actions.rs, ActionCatalog::with_defaults: a static OnceLock filled by   *)
(* get_or_init and cloned for every caller.  Each thread calls it up to    *)
(* MaxCalls times and may change the catalog it was returned.  The         *)
(* embedded definitions are taken to be valid, as the .expect(..) of the   *)
(* initialiser and tests::loads_builtin_scopes have it.                    *)
(***************************************************************************)
NumThreads == 2

MaxCalls == 2

Threads == 1..NumThreads

\* ActionCatalog { templates }
ActionCatalog(templates) == [templates |-> templates]

\* the embedded definitions: two raw actions of a scope, one of every other
BuiltinFile ==
    LET drop == CHOOSE raw \in RawPool : raw.args = SomeValue(<< "x" >>)
    IN  RawActionsFile(<< drop, drop >>, << drop >>, << drop >>)

\* OnceLock::new(): nothing stored, no initialiser running
Incomplete == [tag |-> "Incomplete"]

\* an initialiser is running
Running == [tag |-> "Running"]

\* the value is stored
Complete(value) == [tag |-> "Complete", value |-> value]

\* an initialiser may start whenever no value is stored yet
may_start_unless_complete(lock) == lock.tag # "Complete"

\* get_or_init runs the initialiser of the caller that finds the cell empty and
\* no initialiser running
may_start(lock) == lock.tag = "Incomplete"

\* the closure of get_or_init
builtin_catalog == ActionCatalog(parse_builtin_actions(BuiltinFile).value)

\* Clone for ActionCatalog: a value of its own, equal to the original
clone(catalog) == ActionCatalog([i \in 1..Len(catalog.templates) |-> catalog.templates[i]])

\* where a thread is, and the calls it has made
At(t, place) == [o_pc EXCEPT ![t].at = place]

InitOnce ==
    /\ CoreIdle
    /\ FileIdle /\ FindIdle /\ ExpandIdle /\ ResolveIdle /\ ChooseIdle /\ LoadIdle
    /\ CliIdle
    /\ o_lock = Incomplete
    /\ o_pc = [t \in Threads |-> [at |-> "idle", calls |-> 0]]
    /\ o_ret = [t \in Threads |-> NotCalled]
    /\ o_parses = 0

once_others == <<core_vars, cli_vars, file_vars, find_vars, expand_vars, resolve_vars, choose_vars,
                 load_vars>>

\* a thread calls ActionCatalog::with_defaults()
CallWithDefaults(t) ==
    /\ o_pc[t].at \in { "idle", "returned", "changed" }
    /\ o_pc[t].calls < MaxCalls
    /\ o_pc' = [o_pc EXCEPT ![t] = [at |-> "get_or_init", calls |-> @.calls + 1]]
    /\ UNCHANGED <<o_lock, o_ret, o_parses, once_others>>

\* get_or_init finds the value stored
FindComplete(t) ==
    /\ o_pc[t].at = "get_or_init"
    /\ o_lock.tag = "Complete"
    /\ o_pc' = At(t, "clone")
    /\ UNCHANGED <<o_lock, o_ret, o_parses, once_others>>

\* get_or_init finds the cell empty and starts the initialiser; a caller that
\* finds an initialiser running waits
StartInit(t) ==
    /\ o_pc[t].at = "get_or_init"
    /\ may_start(o_lock)
    /\ o_lock' = Running
    /\ o_pc' = At(t, "init")
    /\ UNCHANGED <<o_ret, o_parses, once_others>>

\* the initialiser parses and converts the definitions and the value is stored
RunInit(t) ==
    /\ o_pc[t].at = "init"
    /\ o_parses' = o_parses + 1
    /\ o_lock' = Complete(builtin_catalog)
    /\ o_pc' = At(t, "clone")
    /\ UNCHANGED <<o_ret, once_others>>

\* .clone(): the caller is returned a catalog of its own
ReturnClone(t) ==
    /\ o_pc[t].at = "clone"
    /\ o_ret' = [o_ret EXCEPT ![t] = clone(o_lock.value)]
    /\ o_pc' = At(t, "returned")
    /\ UNCHANGED <<o_lock, o_parses, once_others>>

\* the caller changes the catalog it was returned: it drops the first template
ChangeOwn(t) ==
    /\ o_pc[t].at = "returned"
    /\ o_ret' = [o_ret EXCEPT ![t] = ActionCatalog(Tail(@.templates))]
    /\ o_pc' = At(t, "changed")
    /\ UNCHANGED <<o_lock, o_parses, once_others>>

NextOnce ==
    \E t \in Threads :
        \/ CallWithDefaults(t)
        \/ FindComplete(t)
        \/ StartInit(t)
        \/ RunInit(t)
        \/ ReturnClone(t)
        \/ ChangeOwn(t)

SpecOnce == InitOnce /\ [][NextOnce]_vars

(***************************************************************************)
(* -------------------- Properties: built-in catalog --------------------- *)
(***************************************************************************)
\* the catalog built from the embedded definitions
BuiltResult == [templates |-> parse_builtin_actions(BuiltinFile).value]

\* C20: under every interleaving of the callers of with_defaults, the
\* definitions are parsed and converted at most once, at most one initialiser
\* runs at a time, the stored catalog is the built one whatever the callers
\* did to the catalogs they were returned, and every call, concurrent or later,
\* returns a catalog equal to it.
C20_BuiltOnce ==
    /\ o_parses <= 1
    /\ Cardinality({ t \in Threads : o_pc[t].at = "init" }) <= 1
    /\ o_lock.tag = "Complete" => ( o_lock.value = BuiltResult /\ o_parses = 1 )
    /\ \A t \in Threads :
          ( o_pc[t].at \in { "clone", "returned", "changed" } ) => o_lock.tag = "Complete"
    /\ \A t \in Threads : o_pc[t].at = "returned" => o_ret[t] = BuiltResult

\* the definitions were parsed once; one thread has changed the catalog of its
\* first call and another is returned the built catalog by its second call
C20_Witness ==
    /\ o_parses = 1
    /\ \E t, u \in Threads :
          /\ t # u
          /\ o_pc[t] = [at |-> "changed", calls |-> 1]
          /\ o_ret[t] # BuiltResult
          /\ o_pc[u] = [at |-> "returned", calls |-> 2]
          /\ o_ret[u] = BuiltResult
(***************************************************************************)
(* ------------------ Properties: the lanes from row to row -------------- *)
(* lanes_before is the slot list the last iteration started from, row the  *)
(* row it pushed and active_lanes the slot list it left.                   *)
(***************************************************************************)
RowDone == n_rows > 0

FreeSlots(lanes) == AwaitingSlots(lanes, None)

SetMax(S) == CHOOSE x \in S : \A y \in S : y <= x

\* the commit of the last row is listed among its own parents
OwnParent == \E k \in 1..Len(row.parents) : row.parents[k] = row.hash

\* the slot list with slot i (0-based, at most one past the end) holding h
Put(lanes, i, h) ==
    IF i < Len(lanes) THEN [lanes EXCEPT ![i + 1] = h] ELSE Append(lanes, h)

\* the slot list when the row's lane was chosen, the other slots awaiting the
\* commit were cleared and the lane was handed to the first parent or freed
RECURSIVE OthersCleared(_, _)
OthersCleared(lanes, n) ==
    IF n = 0
    THEN <<>>
    ELSE Append(OthersCleared(lanes, n - 1),
                IF n - 1 # row.lane /\ lanes[n] = row.hash THEN None ELSE lanes[n])

AfterFirstParent ==
    LET own == Put(lanes_before, row.lane, row.hash)
    IN  Put(OthersCleared(own, Len(own)), row.lane,
            IF row.parents # <<>> THEN row.parents[1] ELSE None)

\* the slot list when parent k of the row is about to be given its lane, read
\* off the edges of the row (k from 2 to one past the last parent)
RECURSIVE LanesAt(_)
LanesAt(k) ==
    IF k <= 2
    THEN AfterFirstParent
    ELSE Put(LanesAt(k - 1), row.edges[k - 1].to_lane, row.parents[k - 1])

\* the slot list before the trailing free slots are popped
Untrimmed == LanesAt(Len(row.parents) + 1)

\* the slot a hash that no slot awaits has to be given
LowestFreeOrNew(lanes) ==
    IF FreeSlots(lanes) # {} THEN SetMin(FreeSlots(lanes)) ELSE Len(lanes)

\* C21: after the row of a commit that is not listed among its own parents, no
\* slot holds the commit's hash, whatever number of slots awaited it before.
C21_OwnHashCleared ==
    ( RowDone /\ ~OwnParent ) => AwaitingSlots(active_lanes, row.hash) = {}

\* two slots awaited the commit of the last row, and none holds its hash now
C21_Witness ==
    /\ RowDone
    /\ ~OwnParent
    /\ Cardinality(AwaitingSlots(lanes_before, row.hash)) >= 2
    /\ row.parents # <<>>
    /\ AwaitingSlots(active_lanes, row.hash) = {}

\* C22: the row of a commit with a first parent leaves the commit's lane
\* holding that parent; the row of any commit leaves every slot that awaits
\* another hash as it was, at its index; a commit that slots await gets the
\* lowest of them as its lane; so a linear single-parent chain that starts on
\* an empty slot list stays in lane 0, the only slot.
C22_ParentKeepsLane ==
    RowDone
       => /\ row.parents # <<>>
                => /\ row.lane < Len(active_lanes)
                   /\ active_lanes[row.lane + 1] = row.parents[1]
          /\ \A i \in 1..Len(lanes_before) :
                lanes_before[i] \notin { None, row.hash }
                   => i <= Len(active_lanes) /\ active_lanes[i] = lanes_before[i]
          /\ AwaitingSlots(lanes_before, row.hash) # {}
                => row.lane = SetMin(AwaitingSlots(lanes_before, row.hash))
          /\ ( /\ lanes_before \in { <<>>, << row.hash >> }
               /\ Len(row.parents) <= 1 )
                => /\ row.lane = 0
                   /\ active_lanes = ( IF row.parents = <<>> \/ row.parents[1] = None
                                       THEN <<>> ELSE << row.parents[1] >> )

\* slot 1 awaited a parent while the row of another commit was made in lane 0,
\* and still awaits it; the commit of the row itself was awaited by lane 0
C22_Witness ==
    /\ n_rows >= 2
    /\ Len(lanes_before) = 2
    /\ lanes_before[1] = row.hash
    /\ lanes_before[2] \notin { None, row.hash }
    /\ row.lane = 0
    /\ Len(row.parents) = 1
    /\ active_lanes = << row.parents[1], lanes_before[2] >>

\* C23: a commit that no slot awaits, and a merge parent that no slot awaits
\* when its turn comes, is given the lowest free slot if there is one and a new
\* slot at the end only if every slot is occupied.
C23_LowestFreeSlot ==
    RowDone
       => /\ AwaitingSlots(lanes_before, row.hash) = {}
                => row.lane = LowestFreeOrNew(lanes_before)
          /\ Len(row.edges) = Len(row.parents)
          /\ \A k \in 2..Len(row.parents) :
                /\ row.edges[k].to_lane <= Len(LanesAt(k))
                /\ AwaitingSlots(LanesAt(k), row.parents[k]) = {}
                      => row.edges[k].to_lane = LowestFreeOrNew(LanesAt(k))
          /\ Len(Untrimmed) > Len(lanes_before)
                => \/ FreeSlots(lanes_before) = {}
                   \/ \E k \in 2..Len(row.parents) : FreeSlots(LanesAt(k)) = {}

\* the commit of the last row was awaited by no slot and was given the free
\* slot 0 below an occupied one; its merge parent, awaited by no slot either,
\* was given a new slot at the end
C23_Witness ==
    /\ RowDone
    /\ Len(lanes_before) >= 2
    /\ AwaitingSlots(lanes_before, row.hash) = {}
    /\ lanes_before[1] = None
    /\ row.lane = 0
    /\ Len(row.parents) = 2
    /\ AwaitingSlots(LanesAt(2), row.parents[2]) = {}
    /\ row.edges[2].to_lane = Len(lanes_before)

\* C24: after every row the slot list is empty or ends with an occupied slot,
\* active_lane_count is one more than the index of the highest occupied slot
\* (0 without one), and the slots below keep their place, the free ones too:
\* only free slots at the end were removed.
C24_TrailingFreeTrimmed ==
    RowDone
       => /\ active_lanes = <<>> \/ active_lanes[Len(active_lanes)] # None
          /\ row.active_lane_count
                = ( IF OccupiedSlots(active_lanes) = {}
                    THEN 0 ELSE SetMax(OccupiedSlots(active_lanes)) + 1 )
          /\ Len(active_lanes) <= Len(Untrimmed)
          /\ \A i \in 1..Len(Untrimmed) :
                IF i <= Len(active_lanes)
                THEN active_lanes[i] = Untrimmed[i]
                ELSE Untrimmed[i] = None

\* the last row left a free slot at the end, which was removed, and a free slot
\* below an occupied one, which was kept
C24_Witness ==
    /\ RowDone
    /\ Len(Untrimmed) > Len(active_lanes)
    /\ Len(active_lanes) >= 2
    /\ active_lanes[1] = None
    /\ row.active_lane_count = Len(active_lanes)

\* C25: every edge of a row goes to a lane below the row's active_lane_count,
\* the slot of that lane holds the edge's parent hash after the row, and edges
\* of the row with different parent hashes go to different lanes.
C25_EdgesPointAtParents ==
    RowDone
       => /\ \A k \in 1..Len(row.edges) :
                /\ row.edges[k].to_lane < row.active_lane_count
                /\ row.edges[k].to_lane < Len(active_lanes)
                /\ active_lanes[row.edges[k].to_lane + 1] = row.edges[k].parent_hash
          /\ \A k, m \in 1..Len(row.edges) :
                row.edges[k].parent_hash # row.edges[m].parent_hash
                   => row.edges[k].to_lane # row.edges[m].to_lane

\* a merge whose second parent was given a free slot below the commit's lane
C25_Witness ==
    /\ RowDone
    /\ Len(row.edges) = 2
    /\ row.edges[1].parent_hash # row.edges[2].parent_hash
    /\ row.edges[2].to_lane < row.edges[1].to_lane
    /\ AwaitingSlots(lanes_before, row.edges[2].parent_hash) = {}
    /\ row.active_lane_count = 2
(***************************************************************************)
(* ------------------------ Terminal interface: run ---------------------- *)
(* tui.rs, run, setup_terminal and restore_terminal.  The terminal is the  *)
(* three modes the two functions switch; what the application's handlers   *)
(* and the crossterm calls answer is drawn from the outcomes they have.    *)
(* A '?' in the body of run returns from run.                              *)
(***************************************************************************)
MaxPolls == 4

Terminal(raw, alternate, mouse) ==
    [raw_mode |-> raw, alternate_screen |-> alternate, mouse_capture |-> mouse]

\* how far setup_terminal gets: all the way, or up to the call that fails; a
\* failing execute! may have written none, the first or both of its commands
SetupOutcomes ==
    { [failed |-> "none", written |-> 2], [failed |-> "enable_raw_mode", written |-> 0],
      [failed |-> "Terminal::new", written |-> 2] }
        \cup { [failed |-> "execute", written |-> n] : n \in 0..2 }

\* fn setup_terminal() -> Result<Terminal<..>>, with the terminal it leaves
setup_terminal(outcome) ==
    IF outcome.failed = "enable_raw_mode"
    THEN [result |-> Err("failed to enable raw mode"), terminal |-> Terminal(FALSE, FALSE, FALSE)]
    ELSE IF outcome.failed = "execute"
    THEN [result   |-> Err("failed to enter alternate screen"),
          terminal |-> Terminal(TRUE, outcome.written >= 1, outcome.written >= 2)]
    ELSE IF outcome.failed = "Terminal::new"
    THEN [result |-> Err("failed to create terminal"), terminal |-> Terminal(TRUE, TRUE, TRUE)]
    ELSE [result |-> Ok("terminal"), terminal |-> Terminal(TRUE, TRUE, TRUE)]

\* how far restore_terminal gets
RestoreOutcomes ==
    { [failed |-> "none", written |-> 2], [failed |-> "disable_raw_mode", written |-> 0],
      [failed |-> "show_cursor", written |-> 2] }
        \cup { [failed |-> "execute", written |-> n] : n \in 0..2 }

\* fn restore_terminal(terminal) -> Result<()>, with the terminal it leaves
restore_terminal(terminal, outcome) ==
    IF outcome.failed = "disable_raw_mode"
    THEN [result |-> Err("failed to disable raw mode"), terminal |-> terminal]
    ELSE IF outcome.failed = "execute"
    THEN [result   |-> Err("failed to leave alternate screen"),
          terminal |-> Terminal(FALSE,
                                terminal.alternate_screen /\ outcome.written < 2,
                                terminal.mouse_capture /\ outcome.written < 1)]
    ELSE IF outcome.failed = "show_cursor"
    THEN [result   |-> Err("failed to restore cursor visibility"),
          terminal |-> Terminal(FALSE, FALSE, FALSE)]
    ELSE [result |-> Ok("unit"), terminal |-> Terminal(FALSE, FALSE, FALSE)]

\* Result::and
and(first, second) == IF first.tag = "Ok" THEN second ELSE first

\* what a handler of the application answers: Result<bool>
HandlerResults == { Ok(TRUE), Ok(FALSE), Err("handler failed") }

\* what event::read() answers
Events ==
    { [kind |-> "error", handled |-> Ok(FALSE)], [kind |-> "release", handled |-> Ok(FALSE)],
      [kind |-> "resize", handled |-> Ok(FALSE)], [kind |-> "other", handled |-> Ok(FALSE)] }
        \cup { [kind |-> "press", handled |-> r] : r \in HandlerResults }
        \cup { [kind |-> "mouse", handled |-> Ok(b)] : b \in BOOLEAN }

InitRun == CoreIdle /\ ServiceIdle /\ CliIdle

run_others == <<core_vars, service_vars, tui_vars>>

\* the operator '?' on an Err, with its context: run returns the error
ReturnError(context) ==
    /\ run_pc' = "returned"
    /\ run_result' = Err(context)
    /\ UNCHANGED <<raw_mode, alternate_screen, mouse_capture, needs_redraw, should_quit,
                   run_events, terminal_ready, run_others>>

\* lines 93-100: the configuration is prepared (a failure is a warning only) and
\* the application is built
CallRun(built) ==
    /\ run_pc = "entry"
    /\ IF built
       THEN /\ run_pc' = "setup"
            /\ UNCHANGED <<raw_mode, alternate_screen, mouse_capture, needs_redraw,
                           should_quit, run_events, terminal_ready, run_result, run_others>>
       ELSE ReturnError("failed to load graph")

\* lines 101-103: setup_terminal().context(..)?, poll_rate, needs_redraw
SetupTerminal(outcome) ==
    /\ run_pc = "setup"
    /\ LET set == setup_terminal(outcome)
       IN  /\ raw_mode' = set.terminal.raw_mode
           /\ alternate_screen' = set.terminal.alternate_screen
           /\ mouse_capture' = set.terminal.mouse_capture
           /\ IF set.result.tag = "Ok"
              THEN /\ run_pc' = "draw"
                   /\ terminal_ready' = TRUE
                   /\ needs_redraw' = TRUE
                   /\ UNCHANGED run_result
              ELSE /\ run_pc' = "returned"
                   /\ run_result' = Err("failed to initialize terminal")
                   /\ UNCHANGED <<terminal_ready, needs_redraw>>
    /\ UNCHANGED <<should_quit, run_events, run_others>>

\* lines 106-111: the frame is drawn if it has to be
Draw(drawn) ==
    /\ run_pc = "draw"
    /\ IF ~needs_redraw
       THEN /\ run_pc' = "poll"
            /\ UNCHANGED <<raw_mode, alternate_screen, mouse_capture, needs_redraw,
                           should_quit, run_events, terminal_ready, run_result, run_others>>
       ELSE IF drawn
       THEN /\ run_pc' = "poll"
            /\ needs_redraw' = FALSE
            /\ UNCHANGED <<raw_mode, alternate_screen, mouse_capture, should_quit,
                           run_events, terminal_ready, run_result, run_others>>
       ELSE ReturnError("failed to draw TUI frame")

\* lines 113-114 and 142: event::poll(poll_rate), with should_quit declared when
\* an event is ready
Poll(answer) ==
    /\ run_pc = "poll"
    /\ run_events < MaxPolls
    /\ IF answer = "error"
       THEN ReturnError("failed to poll terminal events")
       ELSE /\ run_pc' = IF answer = "ready" THEN "read" ELSE "tick"
            /\ should_quit' = FALSE
            /\ run_events' = run_events + 1
            /\ UNCHANGED <<raw_mode, alternate_screen, mouse_capture, needs_redraw,
                           terminal_ready, run_result, run_others>>

\* lines 142-144: else if app.on_tick()? { needs_redraw = true }
Tick(ticked) ==
    /\ run_pc = "tick"
    /\ IF ticked.tag = "Err"
       THEN ReturnError("tick handler failed")
       ELSE /\ run_pc' = "draw"
            /\ needs_redraw' = (needs_redraw \/ ticked.value)
            /\ UNCHANGED <<raw_mode, alternate_screen, mouse_capture, should_quit,
                           run_events, terminal_ready, run_result, run_others>>

\* lines 116-131 and 139-141: one event is read and handled; a key handler that
\* answers false ends both loops with Ok(())
ReadEvent(event) ==
    /\ run_pc = "read"
    /\ IF event.kind = "error"
       THEN ReturnError("failed to read terminal event")
       ELSE IF event.kind = "press" /\ event.handled.tag = "Err"
       THEN ReturnError("key handler failed")
       ELSE IF event.kind = "press" /\ ~event.handled.value
       THEN /\ should_quit' = TRUE
            /\ run_pc' = "restore"
            /\ UNCHANGED <<raw_mode, alternate_screen, mouse_capture, needs_redraw,
                           run_events, terminal_ready, run_result, run_others>>
       ELSE /\ run_pc' = "queued"
            /\ needs_redraw' = ( \/ needs_redraw
                                 \/ event.kind \in { "press", "resize" }
                                 \/ event.kind = "mouse" /\ event.handled.value )
            /\ UNCHANGED <<raw_mode, alternate_screen, mouse_capture, should_quit,
                           run_events, terminal_ready, run_result, run_others>>

\* lines 133-137: event::poll(0) for the events that are queued; should_quit is
\* false here, so line 139 goes on with the outer loop
PollQueued(answer) ==
    /\ run_pc = "queued"
    /\ IF answer = "error"
       THEN ReturnError("failed to poll queued terminal events")
       ELSE IF answer = "ready"
       THEN /\ run_events < MaxPolls
            /\ run_pc' = "read"
            /\ run_events' = run_events + 1
            /\ UNCHANGED <<raw_mode, alternate_screen, mouse_capture, needs_redraw,
                           should_quit, terminal_ready, run_result, run_others>>
       ELSE /\ run_pc' = "draw"
            /\ UNCHANGED <<raw_mode, alternate_screen, mouse_capture, needs_redraw,
                           should_quit, run_events, terminal_ready, run_result, run_others>>

\* lines 147-148: restore_terminal(terminal) and run_result.and(restore_result),
\* run_result being the Ok(()) the loop was left with
RestoreTerminal(outcome) ==
    /\ run_pc = "restore"
    /\ LET restored == restore_terminal(Terminal(raw_mode, alternate_screen, mouse_capture),
                                        outcome)
       IN  /\ raw_mode' = restored.terminal.raw_mode
           /\ alternate_screen' = restored.terminal.alternate_screen
           /\ mouse_capture' = restored.terminal.mouse_capture
           /\ run_result' = and(Ok("unit"), restored.result)
    /\ run_pc' = "returned"
    /\ UNCHANGED <<needs_redraw, should_quit, run_events, terminal_ready, run_others>>

NextRun ==
    \/ \E built \in BOOLEAN : CallRun(built)
    \/ \E outcome \in SetupOutcomes : SetupTerminal(outcome)
    \/ \E drawn \in BOOLEAN : Draw(drawn)
    \/ \E answer \in { "ready", "timeout", "error" } : Poll(answer)
    \/ \E ticked \in HandlerResults : Tick(ticked)
    \/ \E event \in Events : ReadEvent(event)
    \/ \E answer \in { "ready", "none", "error" } : PollQueued(answer)
    \/ \E outcome \in RestoreOutcomes : RestoreTerminal(outcome)

SpecRun == InitRun /\ [][NextRun]_vars

(***************************************************************************)
(* ----------------------- Properties: run and the terminal -------------- *)
(***************************************************************************)
Returned == run_pc = "returned"

Restored == ~raw_mode /\ ~mouse_capture /\ ~alternate_screen

\* C26 as stated: once setup_terminal has succeeded, the terminal is restored
\* (raw mode disabled, mouse capture and alternate screen left) when run has
\* returned, whatever made it return.
C26_RestoredOnEveryReturn == ( Returned /\ terminal_ready ) => Restored
(***************************************************************************)
(* --------------------- Terminal interface: TuiApp ---------------------- *)
(* tui.rs, the handlers of TuiApp.  Of the application's fields the model  *)
(* keeps the graph's commits, the filtered rows, the commit selection, the *)
(* input mode, the focus, the search text, the current commit, the two     *)
(* pending flags, the description popup and the description generated      *)
(* last; the status line, the files and patches of a commit, the scroll    *)
(* positions and the screen areas are left out.  What git, the description *)
(* generator and the clock answer is an input of each event.               *)
(***************************************************************************)
MaxSearchLen == 2

\* std::cmp::min
min(a, b) == IF a <= b THEN a ELSE b

\* what a handler leaves: the application, its Result, and the git operations
\* of the popup it has run (history)
Handled(a, result) == [app |-> a, result |-> result, ran |-> <<>>]

Unit == Ok("unit")

\* the operator '?' on the Result<()> of a call the handler ends with Ok(true)
Continue(h) == IF h.result.tag = "Err" THEN h ELSE [h EXCEPT !.result = Ok(TRUE)]

\* FocusPane::next and FocusPane::prev
next(focus) ==
    IF focus = "Commits" THEN "Files" ELSE IF focus = "Files" THEN "Diff" ELSE "Commits"

prev(focus) ==
    IF focus = "Commits" THEN "Diff" ELSE IF focus = "Files" THEN "Commits" ELSE "Files"

\* CommitSearchQuery { text, ..CommitSearchQuery::default() }
default_query(text) == SearchQuery(text, FALSE, FALSE, IncludeFlags)

\* fn clear_current_commit_view(&mut self)
clear_current_commit_view(a) == [a EXCEPT !.current_commit_hash = NoOption]

\* fn selected_row(&self) -> Option<&GraphRow>
selected_row(a) ==
    IF a.list_state.some /\ a.list_state.value < Len(a.filtered_rows)
    THEN SomeOption(a.filtered_rows[a.list_state.value + 1])
    ELSE NoOption

\* fn sync_selected_commit_from_cache(&mut self)
sync_selected_commit_from_cache(a) ==
    LET selected == selected_row(a)
    IN  IF ~selected.some
        THEN clear_current_commit_view(a)
        ELSE IF a.current_commit_hash = SomeOption(selected.value.hash)
        THEN a
        ELSE [a EXCEPT !.current_commit_hash = SomeOption(selected.value.hash)]

\* fn ensure_current_commit_files_loaded(&mut self) -> Result<()>; loaded: the
\* files are cached or git lists them
ensure_current_commit_files_loaded(a, loaded) ==
    LET synced == IF ~a.current_commit_hash.some
                  THEN sync_selected_commit_from_cache(a) ELSE a
    IN  IF ~synced.current_commit_hash.some
        THEN Handled(synced, Unit)
        ELSE IF ~loaded
        THEN Handled(synced, Err("failed to read changed files"))
        ELSE Handled(synced, Unit)

\* fn ensure_selected_file_patch_loaded(&mut self) -> Result<()>
ensure_selected_file_patch_loaded(a, loaded) == ensure_current_commit_files_loaded(a, loaded)

\* fn prefetch_selected_commit_content(&mut self) -> Result<()>
prefetch_selected_commit_content(a, loaded) ==
    LET files == ensure_current_commit_files_loaded(a, loaded)
    IN  IF files.result.tag = "Err"
        THEN files
        ELSE ensure_selected_file_patch_loaded(files.app, loaded)

\* fn queue_selected_commit_prefetch(&mut self)
queue_selected_commit_prefetch(a) == [a EXCEPT !.pending_commit_prefetch = TRUE]

\* queue_search_apply that queues nothing
queue_search_apply_skipped(a) == a

\* fn queue_search_apply(&mut self)
queue_search_apply(a) == [a EXCEPT !.pending_search_apply = TRUE]

\* set_commit_index without the bound of line 637
set_commit_index_unbounded(a, index) ==
    IF a.filtered_rows = <<>>
    THEN Handled(clear_current_commit_view([a EXCEPT !.list_state = Unselected]), Unit)
    ELSE Handled(queue_selected_commit_prefetch(
                     sync_selected_commit_from_cache([a EXCEPT !.list_state = Selected(index)])),
                 Unit)

\* fn set_commit_index(&mut self, index: usize) -> Result<()>
set_commit_index(a, index) ==
    IF a.filtered_rows = <<>>
    THEN Handled(clear_current_commit_view([a EXCEPT !.list_state = Unselected]), Unit)
    ELSE LET bounded == min(index, Len(a.filtered_rows) - 1)
         IN  Handled(queue_selected_commit_prefetch(
                         sync_selected_commit_from_cache(
                             [a EXCEPT !.list_state = Selected(bounded)])),
                     Unit)

\* self.list_state.selected().unwrap_or(0)
selected_or_zero(a) == IF a.list_state.some THEN a.list_state.value ELSE 0

\* fn next_commit, prev_commit, goto_top_commit, goto_bottom_commit
next_commit(a) ==
    IF a.filtered_rows = <<>>
    THEN Handled(a, Unit)
    ELSE set_commit_index(a, min(selected_or_zero(a) + 1, Len(a.filtered_rows) - 1))

prev_commit(a) ==
    IF a.filtered_rows = <<>>
    THEN Handled(a, Unit)
    ELSE set_commit_index(a, IF selected_or_zero(a) = 0 THEN 0 ELSE selected_or_zero(a) - 1)

goto_top_commit(a) ==
    IF a.filtered_rows = <<>> THEN Handled(a, Unit) ELSE set_commit_index(a, 0)

goto_bottom_commit(a) ==
    IF a.filtered_rows = <<>>
    THEN Handled(a, Unit)
    ELSE set_commit_index(a, Len(a.filtered_rows) - 1)

\* fn next_file, prev_file, goto_top_file, goto_bottom_file, set_file_index: the
\* files of the current commit are made sure of, then the file selection moves
move_file(a, loaded) == ensure_current_commit_files_loaded(a, loaded)

\* fn apply_search(&mut self, prefetch_artifacts: bool) -> Result<()>
apply_search(a, prefetch_artifacts, loaded) ==
    LET unqueued == [a EXCEPT !.pending_search_apply = FALSE]
        found    == filter_commits(unqueued.graph, default_query(unqueued.search_input))
    IN  IF found.tag = "Err"
        THEN Handled(unqueued, Err("search failed"))
        ELSE LET filtered == [unqueued EXCEPT !.filtered_rows = found.value]
             IN  IF filtered.filtered_rows = <<>>
                 THEN Handled(clear_current_commit_view(
                                  [filtered EXCEPT !.list_state = Unselected]), Unit)
                 ELSE LET bounded == min(selected_or_zero(filtered),
                                         Len(filtered.filtered_rows) - 1)
                          synced  == sync_selected_commit_from_cache(
                                         [filtered EXCEPT !.list_state = Selected(bounded)])
                      IN  IF prefetch_artifacts
                          THEN prefetch_selected_commit_content(synced, loaded)
                          ELSE Handled([synced EXCEPT !.pending_commit_prefetch = FALSE], Unit)

\* fn refresh(&mut self) -> Result<()>; graph: what service.graph answers
refresh(a, graph, loaded) ==
    IF graph.tag = "Err"
    THEN Handled(a, Err("failed to refresh graph"))
    ELSE apply_search([a EXCEPT !.graph = graph.value], TRUE, loaded)

\* fn set_focus(&mut self, focus: FocusPane) -> Result<()>
set_focus(a, focus, loaded) ==
    LET focused == [a EXCEPT !.focus = focus]
    IN  IF focus \in { "Files", "Diff" }
        THEN prefetch_selected_commit_content(focused, loaded)
        ELSE Handled(focused, Unit)

\* fn show_commit_desc_error(&mut self, err: &anyhow::Error)
show_commit_desc_error(a) ==
    [a EXCEPT !.commit_desc_popup_lines = SomeOption("Commit description error"),
              !.commit_desc_popup_mode = SomeOption("Error")]

\* fn generate_commit_description_popup(&mut self) -> Result<()>; generated:
\* the generator has answered with a text
generate_commit_description_popup(a, generated) ==
    IF ~generated
    THEN Handled(a, Err("failed to generate commit description"))
    ELSE Handled([a EXCEPT !.commit_desc_popup_lines = SomeOption("description"),
                           !.commit_desc_popup_mode = SomeOption("Generated"),
                           !.last_generated_commit_desc = SomeOption("description")],
                 Unit)

Ran(operation, done) == [operation |-> operation, done |-> done]

\* auto_commit_from_popup that leaves the popup as it was after the commit
auto_commit_from_popup_again(a, outcome) ==
    IF ~a.last_generated_commit_desc.some
    THEN Handled(a, Err("no generated commit description available"))
    ELSE IF ~outcome.done
    THEN [Handled(a, Err("failed to auto-commit")) EXCEPT !.ran = << Ran("commit", FALSE) >>]
    ELSE [Handled(refresh(a, outcome.graph, outcome.loaded).app, Unit)
             EXCEPT !.ran = << Ran("commit", TRUE) >>]

\* fn auto_commit_from_popup(&mut self) -> Result<()>; outcome.done: git has
\* made the commit
auto_commit_from_popup(a, outcome) ==
    IF ~a.last_generated_commit_desc.some
    THEN Handled(a, Err("no generated commit description available"))
    ELSE IF ~outcome.done
    THEN [Handled(a, Err("failed to auto-commit")) EXCEPT !.ran = << Ran("commit", FALSE) >>]
    ELSE LET shown == [a EXCEPT !.commit_desc_popup_lines = SomeOption("Auto-commit completed"),
                                !.commit_desc_popup_mode = SomeOption("CommitDone")]
         IN  [Handled(refresh(shown, outcome.graph, outcome.loaded).app, Unit)
                 EXCEPT !.ran = << Ran("commit", TRUE) >>]

\* fn auto_push_from_popup(&mut self) -> Result<()>; done: git has pushed
auto_push_from_popup(a, done) ==
    IF ~done
    THEN [Handled(a, Err("failed to auto-push")) EXCEPT !.ran = << Ran("push", FALSE) >>]
    ELSE [Handled([a EXCEPT !.commit_desc_popup_lines = SomeOption("Auto-push completed"),
                            !.commit_desc_popup_mode = SomeOption("PushDone")], Unit)
             EXCEPT !.ran = << Ran("push", TRUE) >>]

\* if let Err(err) = <call> { self.show_commit_desc_error(&err) }, and Ok(true)
ErrorShown(h) ==
    [h EXCEPT !.app = IF h.result.tag = "Err" THEN show_commit_desc_error(h.app) ELSE h.app,
              !.result = Ok(TRUE)]

\* a key press: KeyEvent { code, modifiers }
Key(code, control, alt) == [code |-> code, control |-> control, alt |-> alt]

\* KeyCode::Char(_)
IsChar(code) == Len(code) = 1

\* fn handle_normal_mode_key(&mut self, key) -> Result<bool>
handle_normal_mode_key(a, key, outcome) ==
    IF key.code = "q" THEN Handled(a, Ok(FALSE))
    ELSE IF key.code \in { "Tab", "Right" }
    THEN Continue(set_focus(a, next(a.focus), outcome.loaded))
    ELSE IF key.code \in { "BackTab", "Left" }
    THEN Continue(set_focus(a, prev(a.focus), outcome.loaded))
    ELSE IF key.code \in { "Down", "j" }
    THEN IF a.focus = "Commits" THEN Continue(next_commit(a))
         ELSE IF a.focus = "Files" THEN Continue(move_file(a, outcome.loaded))
         ELSE Handled(a, Ok(TRUE))
    ELSE IF key.code \in { "Up", "k" }
    THEN IF a.focus = "Commits" THEN Continue(prev_commit(a))
         ELSE IF a.focus = "Files" THEN Continue(move_file(a, outcome.loaded))
         ELSE Handled(a, Ok(TRUE))
    ELSE IF key.code \in { "PageDown", "PageUp" } THEN Handled(a, Ok(TRUE))
    ELSE IF key.code = "g"
    THEN IF a.focus = "Commits" THEN Continue(goto_top_commit(a))
         ELSE IF a.focus = "Files" THEN Continue(move_file(a, outcome.loaded))
         ELSE Handled(a, Ok(TRUE))
    ELSE IF key.code = "G"
    THEN IF a.focus = "Commits" THEN Continue(goto_bottom_commit(a))
         ELSE IF a.focus = "Files" THEN Continue(move_file(a, outcome.loaded))
         ELSE Handled(a, Ok(TRUE))
    ELSE IF key.code = "r" THEN Continue(refresh(a, outcome.graph, outcome.loaded))
    ELSE IF key.code = "m"
    THEN ErrorShown(generate_commit_description_popup(a, outcome.done))
    ELSE IF key.code = "Enter"
    THEN IF a.focus = "Files"
         THEN Continue(ensure_selected_file_patch_loaded(a, outcome.loaded))
         ELSE Handled(a, Ok(TRUE))
    ELSE IF key.code = "/" THEN Handled([a EXCEPT !.input_mode = "Search"], Ok(TRUE))
    ELSE IF key.code = "Esc"
    THEN IF a.search_input # <<>>
         THEN Continue(apply_search([a EXCEPT !.search_input = <<>>], TRUE, outcome.loaded))
         ELSE Handled(a, Ok(TRUE))
    ELSE IF key.code = "c" /\ key.control THEN Handled(a, Ok(FALSE))
    ELSE Handled(a, Ok(TRUE))

\* String::pop
pop(s) == IF s = <<>> THEN s ELSE SubSeq(s, 1, Len(s) - 1)

\* fn handle_search_mode_key(&mut self, key) -> Result<bool>
handle_search_mode_key(a, key, outcome) ==
    IF key.code = "Enter"
    THEN Continue(apply_search([a EXCEPT !.input_mode = "Normal",
                                         !.pending_search_apply = FALSE],
                               TRUE, outcome.loaded))
    ELSE IF key.code = "Esc"
    THEN LET normal == [a EXCEPT !.input_mode = "Normal"]
         IN  IF normal.pending_search_apply
             THEN Continue(apply_search([normal EXCEPT !.pending_search_apply = FALSE],
                                        FALSE, outcome.loaded))
             ELSE Handled(normal, Ok(TRUE))
    ELSE IF key.code = "Backspace"
    THEN Handled(queue_search_apply([a EXCEPT !.search_input = pop(@)]), Ok(TRUE))
    ELSE IF IsChar(key.code)
    THEN IF ~key.control /\ ~key.alt
         THEN Handled(queue_search_apply([a EXCEPT !.search_input = Append(@, key.code)]),
                      Ok(TRUE))
         ELSE Handled(a, Ok(TRUE))
    ELSE Handled(a, Ok(TRUE))

\* fn handle_commit_desc_popup_key(&mut self, key) -> Result<bool>
handle_commit_desc_popup_key(a, key, outcome) ==
    IF key.code \in { "Esc", "q" }
    THEN Handled([a EXCEPT !.commit_desc_popup_lines = NoOption,
                           !.commit_desc_popup_mode = NoOption], Ok(TRUE))
    ELSE IF /\ key.code = "c"
            /\ ~key.control
            /\ a.commit_desc_popup_mode = SomeOption("Generated")
    THEN ErrorShown(auto_commit_from_popup(a, outcome))
    ELSE IF /\ key.code = "p"
            /\ ~key.control
            /\ a.commit_desc_popup_mode = SomeOption("CommitDone")
    THEN ErrorShown(auto_push_from_popup(a, outcome.done))
    ELSE IF key.code = "c" /\ key.control THEN Handled(a, Ok(FALSE))
    ELSE Handled(a, Ok(TRUE))

\* fn on_key(&mut self, key) -> Result<bool>
on_key(a, key, outcome) ==
    IF a.commit_desc_popup_lines.some
    THEN handle_commit_desc_popup_key(a, key, outcome)
    ELSE IF a.input_mode = "Normal"
    THEN handle_normal_mode_key(a, key, outcome)
    ELSE handle_search_mode_key(a, key, outcome)

\* a mouse event: its kind, the area it falls in ("none" outside them all), and
\* the list index under it: list_state.offset() + (mouse.row - area.y)
Mouse(kind, area, index) == [kind |-> kind, area |-> area, index |-> index]

\* if let Err(err) = self.set_focus(..) { self.status = .. }, and let _ = ..
Ignored(h) == h.app

\* fn on_mouse(&mut self, mouse: MouseEvent) -> bool
on_mouse(a, mouse, loaded) ==
    IF a.commit_desc_popup_lines.some THEN Handled(a, Ok(TRUE))
    ELSE IF mouse.area = "search" /\ mouse.kind = "DownLeft"
    THEN Handled([a EXCEPT !.input_mode = "Search"], Ok(TRUE))
    ELSE IF a.input_mode = "Search" THEN Handled(a, Ok(FALSE))
    ELSE IF mouse.area = "commits"
    THEN LET focused == Ignored(set_focus(a, "Commits", loaded))
         IN  IF mouse.kind = "ScrollDown" THEN Handled(Ignored(next_commit(focused)), Ok(TRUE))
             ELSE IF mouse.kind = "ScrollUp"
             THEN Handled(Ignored(prev_commit(focused)), Ok(TRUE))
             ELSE IF mouse.kind \in { "DownLeft", "DragLeft" }
             THEN Handled(Ignored(set_commit_index(focused, mouse.index)), Ok(TRUE))
             ELSE Handled(focused, Ok(FALSE))
    ELSE IF mouse.area = "files"
    THEN LET focused == Ignored(set_focus(a, "Files", loaded))
         IN  IF mouse.kind \in { "ScrollDown", "ScrollUp", "DownLeft", "DragLeft" }
             THEN Handled(Ignored(move_file(focused, loaded)), Ok(TRUE))
             ELSE Handled(focused, Ok(FALSE))
    ELSE IF mouse.area = "diff"
    THEN LET focused == IF a.focus # "Diff" THEN Ignored(set_focus(a, "Diff", loaded)) ELSE a
         IN  Handled(focused, Ok(mouse.kind \in { "ScrollDown", "ScrollUp" }))
    ELSE Handled(a, Ok(FALSE))

\* fn on_tick(&mut self) -> Result<bool>; due: which of the two delays have passed
on_tick(a, due, loaded) ==
    LET searched == IF a.pending_search_apply /\ due.search
                    THEN apply_search([a EXCEPT !.pending_search_apply = FALSE], FALSE, loaded)
                    ELSE Handled(a, Unit)
        redraw   == a.pending_search_apply /\ due.search
    IN  IF searched.result.tag = "Err"
        THEN searched
        ELSE IF searched.app.pending_commit_prefetch /\ due.prefetch
        THEN LET fetched == prefetch_selected_commit_content(
                                [searched.app EXCEPT !.pending_commit_prefetch = FALSE], loaded)
             IN  IF fetched.result.tag = "Err" THEN fetched
                 ELSE [fetched EXCEPT !.result = Ok(TRUE)]
        ELSE [searched EXCEPT !.result = Ok(redraw)]

\* fn new(service, config) -> Result<Self>; graph: what service.graph answers
new(graph) ==
    IF graph.tag = "Err"
    THEN Handled(NoApp, Err("failed to load graph"))
    ELSE LET built == [NoApp EXCEPT !.graph = graph.value,
                                    !.filtered_rows = graph.value,
                                    !.list_state = IF graph.value # <<>>
                                                   THEN Selected(0) ELSE Unselected]
         IN  Handled(sync_selected_commit_from_cache(built), Unit)

(***************************************************************************)
(* The inputs of the application: three histories, the keys the handlers   *)
(* tell apart, the letters a and b typed into the search box, and mouse    *)
(* events in and outside the areas.                                        *)
(***************************************************************************)
TuiRow(hash, subject) == SearchRow(hash, hash, subject, <<>>, <<>>, <<>>, <<>>)

Row1 == TuiRow(<<"1">>, <<"a", "b">>)

Row2 == TuiRow(<<"2">>, <<"b">>)

Row3 == TuiRow(<<"3">>, <<"a">>)

Graphs == { <<>>, << Row1, Row2 >>, << Row2, Row3, Row1 >> }

GraphAnswers == { Err("git failed") } \cup { Ok(g) : g \in Graphs }

\* what git and the generator answer during one event
Outcome(graph, done, loaded) == [graph |-> graph, done |-> done, loaded |-> loaded]

\* the answers a key's handlers can ask for
Outcomes(key) ==
    { Outcome(graph, done, loaded) :
        graph \in ( IF key.code \in { "r", "c" } THEN GraphAnswers ELSE { Ok(<<>>) } ),
        done \in ( IF key.code \in { "m", "c", "p" } THEN BOOLEAN ELSE { TRUE } ),
        loaded \in BOOLEAN }

CommandKeys ==
    { Key(code, FALSE, FALSE) :
        code \in { "q", "Tab", "BackTab", "Down", "Up", "PageDown", "g", "G", "r", "m",
                   "Enter", "/", "Esc", "c", "p", "x" } }
        \cup { Key("c", TRUE, FALSE), Key("p", TRUE, FALSE) }

TypingKeys ==
    { Key("Enter", FALSE, FALSE), Key("Esc", FALSE, FALSE), Key("Backspace", FALSE, FALSE),
      Key("a", FALSE, FALSE), Key("b", FALSE, FALSE), Key("a", TRUE, FALSE),
      Key("b", FALSE, TRUE), Key("Tab", FALSE, FALSE) }

\* the keys offered: commands, and in the search box what is typed there
Keys == IF ~app.commit_desc_popup_lines.some /\ app.input_mode = "Search"
        THEN TypingKeys ELSE CommandKeys

MouseEvents ==
    { Mouse(kind, area, 0) :
        kind \in { "ScrollDown", "ScrollUp" }, area \in { "commits", "files", "diff" } }
        \cup { Mouse("Moved", area, 0) : area \in { "search", "commits", "none" } }
        \cup { Mouse("DownLeft", area, 0) : area \in { "search", "files" } }
        \cup { Mouse("DownLeft", "commits", index) : index \in { 0, 1, 5 } }
        \cup { Mouse("DragLeft", "commits", 1) }

\* the answers a mouse event's handlers can ask for
Loads(mouse) == IF mouse.area \in { "files", "diff" } THEN BOOLEAN ELSE { TRUE }

Dues == [search : BOOLEAN, prefetch : BOOLEAN]

InitTui == CoreIdle /\ ServiceIdle /\ CliIdle

tui_others == <<core_vars, service_vars, run_vars>>

LoggedEvent(kind, key, before) ==
    [kind |-> kind, code |-> key.code, control |-> key.control,
     mode |-> before.commit_desc_popup_mode]

\* the operations of one kind among those an event has run
RanOf(h, operation) == SelectSeq(h.ran, LAMBDA r : r.operation = operation)

\* the history of an event that took the application from before to h.app:
\*   edited_by   the event, if it changed search_input
\*   applied_by  the event, if it found pending_search_apply set and cleared it
\*   commit_by   the event, if it ran an auto-commit; push_by, an auto-push
\*   commits     the auto-commits run since the popup was opened with a
\*               generated description (2 for more); pushes, the auto-pushes
\*   committed   an auto-commit has succeeded since the popup was opened
Logged(kind, key, before, h) ==
    LET after     == h.app
        generated == /\ after.commit_desc_popup_mode = SomeOption("Generated")
                     /\ before.commit_desc_popup_mode # SomeOption("Generated")
        opened    == ~before.commit_desc_popup_lines.some
        closed    == ~after.commit_desc_popup_lines.some
    IN  [edited_by  |-> IF after.search_input # before.search_input
                        THEN LoggedEvent(kind, key, before) ELSE NoEvent,
         applied_by |-> IF before.pending_search_apply /\ ~after.pending_search_apply
                        THEN LoggedEvent(kind, key, before) ELSE NoEvent,
         commit_by  |-> IF RanOf(h, "commit") # <<>>
                        THEN LoggedEvent(kind, key, before) ELSE NoEvent,
         push_by    |-> IF RanOf(h, "push") # <<>>
                        THEN LoggedEvent(kind, key, before) ELSE NoEvent,
         commits    |-> min(2, (IF generated \/ closed THEN 0 ELSE app_log.commits)
                                 + Len(RanOf(h, "commit"))),
         pushes     |-> min(2, (IF generated \/ closed THEN 0 ELSE app_log.pushes)
                                 + Len(RanOf(h, "push"))),
         committed  |-> /\ ~closed
                        /\ \/ ~opened /\ app_log.committed
                           \/ \E i \in 1..Len(h.ran) :
                                 h.ran[i] = Ran("commit", TRUE)]

\* an event handled: the application it leaves, and run's reading of the answer
After(kind, key, h) ==
    /\ app' = h.app
    /\ app_phase' = IF h.result.tag = "Err" THEN "failed"
                    ELSE IF kind = "key" /\ ~h.result.value THEN "quit"
                    ELSE "running"
    /\ app_log' = Logged(kind, key, app, h)
    /\ UNCHANGED tui_others

NoKey == Key("", FALSE, FALSE)

\* TuiApp::new(service, config)
New(graph) ==
    /\ app_phase = "entry"
    /\ LET h == new(graph)
       IN  /\ app' = h.app
           /\ app_phase' = IF h.result.tag = "Err" THEN "failed" ELSE "running"
           /\ UNCHANGED <<app_log, tui_others>>

\* app.on_key(key)
OnKey(key, outcome) ==
    /\ app_phase = "running"
    /\ key.code = "a" \/ key.code = "b" => Len(app.search_input) < MaxSearchLen
    /\ After("key", key, on_key(app, key, outcome))

\* app.on_mouse(mouse)
OnMouse(mouse, loaded) ==
    /\ app_phase = "running"
    /\ After("mouse", NoKey, on_mouse(app, mouse, loaded))

\* app.on_tick()
OnTick(due, loaded) ==
    /\ app_phase = "running"
    /\ After("tick", NoKey, on_tick(app, due, loaded))

\* the events run reads and the ticks between them
KeyEvent == \E key \in Keys : \E outcome \in Outcomes(key) : OnKey(key, outcome)

MouseEvent == \E mouse \in MouseEvents : \E loaded \in Loads(mouse) : OnMouse(mouse, loaded)

TickEvent == \E due \in Dues, loaded \in BOOLEAN : OnTick(due, loaded)

NextTui ==
    \/ \E graph \in GraphAnswers : New(graph)
    \/ KeyEvent
    \/ MouseEvent
    \/ TickEvent

SpecTui == InitTui /\ [][NextTui]_vars
(***************************************************************************)
(* --------------------- Properties: the application --------------------- *)
(***************************************************************************)
Built == app_phase # "entry"

\* filter_commits of the loaded commits with the search text and the default
\* options
SearchedRows == filter_commits(app.graph, default_query(app.search_input)).value

ByKey(event, codes) == event.kind = "key" /\ event.code \in codes

\* C27: once the application is built, whenever pending_search_apply is false
\* filtered_rows is filter_commits of graph.commits with search_input and the
\* default options; an event that changes search_input leaves
\* pending_search_apply set, but for Esc in normal mode, which clears the text
\* and applies the search at once; and only Enter, Esc and a tick clear a
\* pending_search_apply that was set.
C27_FilteredRowsFollowSearch ==
    Built
       => /\ ~app.pending_search_apply => app.filtered_rows = SearchedRows
          /\ app_log.edited_by # NoEvent
                => \/ app.pending_search_apply
                   \/ ByKey(app_log.edited_by, { "Esc" }) /\ app.search_input = <<>>
          /\ app_log.applied_by # NoEvent
                => \/ app_log.applied_by.kind = "tick"
                   \/ ByKey(app_log.applied_by, { "Enter", "Esc" })

\* a tick has applied a search text that was typed, and the rows shown are some
\* of the loaded commits, not all
C27_Witness ==
    /\ app_phase = "running"
    /\ app_log.applied_by.kind = "tick"
    /\ ~app.pending_search_apply
    /\ app.input_mode = "Search"
    /\ app.search_input # <<>>
    /\ app.filtered_rows # <<>>
    /\ Len(app.filtered_rows) < Len(app.graph)

\* C28: an auto-commit is run only by the key c without Control while the
\* popup mode is Generated, an auto-push only by the key p without Control
\* while the mode is CommitDone; the mode is CommitDone only after an
\* auto-commit that succeeded since the popup was opened, so an auto-push
\* follows one; and at most one auto-commit and one auto-push are run for a
\* generated description.
C28_PushOnlyAfterCommit ==
    /\ app_log.commit_by # NoEvent
          => /\ ByKey(app_log.commit_by, { "c" })
             /\ ~app_log.commit_by.control
             /\ app_log.commit_by.mode = SomeOption("Generated")
    /\ app_log.push_by # NoEvent
          => /\ ByKey(app_log.push_by, { "p" })
             /\ ~app_log.push_by.control
             /\ app_log.push_by.mode = SomeOption("CommitDone")
             /\ app_log.committed
    /\ app.commit_desc_popup_mode = SomeOption("CommitDone") => app_log.committed
    /\ app_log.commits <= 1
    /\ app_log.pushes <= 1

\* the description generated last has been committed and then pushed
C28_Witness ==
    /\ app_log.push_by # NoEvent
    /\ app.commit_desc_popup_mode = SomeOption("PushDone")
    /\ app_log.committed
    /\ app_log.commits = 1
    /\ app_log.pushes = 1

\* C29: once the application is built, no commit is selected exactly when
\* filtered_rows is empty, a selected index is below filtered_rows.len(), and
\* current_commit_hash is the hash of the selected row, or none without one.
C29_SelectionWithinRows ==
    Built
       => /\ ~app.list_state.some <=> app.filtered_rows = <<>>
          /\ app.list_state.some => app.list_state.value < Len(app.filtered_rows)
          /\ app.current_commit_hash
                = ( IF app.list_state.some /\ app.list_state.value < Len(app.filtered_rows)
                    THEN SomeOption(app.filtered_rows[app.list_state.value + 1].hash)
                    ELSE NoOption )

\* the last of the loaded commits was selected, and a search has left two rows
\* with the selection on the second of them
C29_Witness ==
    /\ app_phase = "running"
    /\ Len(app.graph) = 3
    /\ app.search_input # <<>>
    /\ ~app.pending_search_apply
    /\ Len(app.filtered_rows) = 2
    /\ app.list_state = Selected(1)
    /\ app.current_commit_hash = SomeOption(app.filtered_rows[2].hash)
(***************************************************************************)
(* ---------------- Properties: the expansion is a single pass ----------- *)
(***************************************************************************)
\* the keys of the '{NAME}' pieces of a text, and of all its placeholder pieces
NameKeys(s) ==
    LET starts == PieceStarts(s, 1)
    IN  { PieceKey(s, starts[n]) :
            n \in { m \in 1..Len(starts) : IsNamePiece(s, starts[m]) } }

PlaceholderKeys(s) ==
    LET starts == PieceStarts(s, 1)
    IN  { PieceKey(s, starts[n]) :
            n \in { m \in 1..Len(starts) :
                      IsNamePiece(s, starts[m]) \/ IsIndexPiece(s, starts[m]) } }

\* a text holds the start of a placeholder
HasSyntax(s) == HasChar(s, "{") \/ HasChar(s, "$")

\* C30: the lookup is asked for names written in the input only, a
\* MissingPlaceholder error names a placeholder written in the input only, and
\* an expansion that succeeds is the input with each placeholder replaced by
\* its value as it stands, whatever the value holds.
C30_ValuesInsertedVerbatim ==
    e_result # NotCalled
       => /\ \A n \in 1..Len(e_asked) : e_asked[n] \in NameKeys(e_input)
          /\ ( e_result.tag = "Err" /\ e_result.error.kind = "MissingPlaceholder" )
                => e_result.error.key \in PlaceholderKeys(e_input)
          /\ e_result.tag = "Ok"
                => e_result.value = Expansion(e_input, e_placeholders, e_lookup)

\* '$1' stands for the value "{A}", the table has no A and the lookup fails for
\* A: the result is "{A}" and the lookup was not asked
C30_Witness ==
    /\ e_input = << "$", "1" >>
    /\ << "A" >> \notin DOMAIN e_placeholders
    /\ lookup_answer(e_lookup, << "A" >>).tag = "Err"
    /\ << "$", "1" >> \in DOMAIN e_placeholders
    /\ HasSyntax(e_placeholders[<< "$", "1" >>])
    /\ e_asked = <<>>
    /\ e_result = Ok(<< "{", "A", "}" >>)
====
